---- MODULE Spec2Model ----
(***************************************************************************)
(* Model of the GitHub ingestion pipeline of github-productivity-trends:   *)
(*   - src/lib/rate-limiter.ts  GitHubRateLimiter (three quota budgets)    *)
(*   - src/lib/github.ts        withRetries, getCachedOrFetch and the      *)
(*                              exported request functions built on them   *)
(*   - src/app/api/sync/route.ts upsertUser (per-user onboarding), the     *)
(*                              seeded sampler, the POST handler and its   *)
(*                              SyncJob row; app/api/adoption POST         *)
(*   - app/api/metrics, app/api/findings: the cohort statistics            *)
(* Time is in milliseconds, as Date.now() gives it.                        *)
(***************************************************************************)
EXTENDS Integers, Sequences, FiniteSets, TLC

VARIABLES
    now,            \* the wall clock, Date.now()
    ticks,          \* number of free clock advances taken so far
    limits,         \* rateLimiter: restLimit / searchLimit / graphqlLimit
    cache,          \* the APICache table, by cacheKey
    call,           \* the request function currently running (or last finished)
    prev,           \* the summary of the call finished before the current one
    calls,          \* number of request-function calls started
    config,         \* GITHUB_RETRY_* as read from the environment at load time
    upstreamErrors, \* the errors the wrapped upstream call may throw in this run
    upstream,       \* GitHub's data on the candidates: profile and calendars
    sampledUser,    \* the SampledUser table, by githubId
    metrics,        \* the UserContributionMetrics table (a set of rows)
    ob,             \* upsertUser: the onboarding in progress (or last finished)
    processed,      \* syncUsers: its processed counter
    runs,           \* number of upsertUser calls started
    syncJob,        \* the SyncJob table, by job id
    handler,        \* POST /api/sync or /api/adoption: the invocation in progress
    committed,      \* the entity rows a sync has committed so far
    sampler,        \* sampleUsersFromBand: the run in progress and the last results
    report,         \* GET /api/metrics, /api/findings: the store read and the answer
    commitMetrics,  \* the CommitMetrics table of one repository (a set of rows)
    repoStats,      \* processRepoStats: the run in progress (or last finished)
    params,         \* POST /api/sync: the parameters resolved, recorded and used
    sampledRepo,    \* the SampledRepo table (a set of rows)
    prMetrics,      \* the PRMetrics table (a set of rows)
    issueMetrics,   \* the IssueMetrics table (a set of rows)
    flow,           \* upsertRepo, processRepoPRs, processRepoIssues: the run in progress
    tasks           \* the tasks sharing the rate limiter, each inside or outside the gate

execVars == <<now, ticks, limits, cache, call, prev, calls, config, upstreamErrors>>
obVars == <<upstream, sampledUser, metrics, ob, processed, runs>>
jobVars == <<syncJob, handler, committed>>
samplerVars == <<sampler>>
reportVars == <<report>>
repoVars == <<commitMetrics, repoStats>>
paramVars == <<params>>
flowVars == <<sampledRepo, prMetrics, issueMetrics, flow>>
taskVars == <<tasks>>
nonExecVars == <<obVars, jobVars, samplerVars, reportVars, repoVars, paramVars, flowVars, taskVars>>
nonObVars == <<execVars, jobVars, samplerVars, reportVars, repoVars, paramVars, flowVars, taskVars>>
nonJobVars == <<execVars, obVars, samplerVars, reportVars, repoVars, paramVars, flowVars, taskVars>>
nonSamplerVars == <<execVars, obVars, jobVars, reportVars, repoVars, paramVars, flowVars, taskVars>>
nonReportVars == <<execVars, obVars, jobVars, samplerVars, repoVars, paramVars, flowVars, taskVars>>
nonRepoVars == <<execVars, obVars, jobVars, samplerVars, reportVars, paramVars, flowVars, taskVars>>
nonParamVars == <<execVars, obVars, jobVars, samplerVars, reportVars, repoVars, flowVars, taskVars>>
nonFlowVars == <<execVars, obVars, jobVars, samplerVars, reportVars, repoVars, paramVars, taskVars>>
nonTaskVars == <<obVars, jobVars, samplerVars, reportVars, repoVars, paramVars, flowVars>>

(***************************************************************************)
(* Bounds of the model.                                                    *)
(***************************************************************************)
MaxCalls == 2
MaxTicks == 1

StartNow == 10 * 1000

Max(a, b) == IF a >= b THEN a ELSE b
Min(a, b) == IF a <= b THEN a ELSE b
Range(f) == {f[i] : i \in DOMAIN f}

RECURSIVE Pow2(_)
Pow2(n) == IF n <= 0 THEN 1 ELSE 2 * Pow2(n - 1)

(***************************************************************************)
(* rate-limiter.ts                                                         *)
(***************************************************************************)
Channels == {"rest", "search", "graphql"}

\* The field initialisers of GitHubRateLimiter; resetAt is new Date() at load.
InitialLimits(t0) ==
    [rest    |-> [remaining |-> 5000, limit |-> 5000, resetAt |-> t0],
     search  |-> [remaining |-> 30,   limit |-> 30,   resetAt |-> t0],
     graphql |-> [remaining |-> 5000, limit |-> 5000, resetAt |-> t0]]

\* parseInt(headers[name] || dflt, 10) for a header that is absent or numeric.
HeaderInt(headers, name, dflt) ==
    IF name \in DOMAIN headers THEN headers[name] ELSE dflt

\* one budget record written to every channel
updateFromHeaders_shared(lim, headers, type) ==
    [ch \in DOMAIN lim |->
        [remaining |-> HeaderInt(headers, "x-ratelimit-remaining", 5000),
         limit     |-> HeaderInt(headers, "x-ratelimit-limit", 5000),
         resetAt   |-> HeaderInt(headers, "x-ratelimit-reset", 0) * 1000]]
updateFromHeaders(lim, headers, type) ==
    [lim EXCEPT ![type] =
        [remaining |-> HeaderInt(headers, "x-ratelimit-remaining", 5000),
         limit     |-> HeaderInt(headers, "x-ratelimit-limit", 5000),
         resetAt   |-> HeaderInt(headers, "x-ratelimit-reset", 0) * 1000]]

buffer(type) == IF type = "search" THEN 5 ELSE 100

\* waitIfNeeded: whether the budget is at or below the buffer
BelowBuffer_lt(state, type) == state.remaining < buffer(type)
BelowBuffer(state, type) == state.remaining <= buffer(type)

\* waitIfNeeded: the delay handed to setTimeout (0: no suspension)
waitMs(lim, type, t) ==
    IF BelowBuffer(lim[type], type)
        THEN Max(0, lim[type].resetAt - t + 1000)
        ELSE 0

\* the predicate without its clause on the reset time
canMakeRequest_budgetOnly(lim, type, t) ==
    lim[type].remaining > buffer(type)
canMakeRequest_ge(lim, type, t) ==
    lim[type].remaining >= buffer(type) \/ lim[type].resetAt < t
canMakeRequest(lim, type, t) ==
    lim[type].remaining > buffer(type) \/ lim[type].resetAt < t

(***************************************************************************)
(* github.ts: configuration                                                *)
(***************************************************************************)
GITHUB_RETRY_ATTEMPTS == 3
GITHUB_RETRY_BASE_DELAY_MS == 800
GITHUB_RETRY_MAX_DELAY_MS == 8000
GRAPHQL_THROTTLE_MS == 800

DefaultConfig ==
    [attempts  |-> GITHUB_RETRY_ATTEMPTS,
     baseDelay |-> GITHUB_RETRY_BASE_DELAY_MS,
     maxDelay  |-> GITHUB_RETRY_MAX_DELAY_MS,
     jitters   |-> {0}]

\* CACHE_TTL, in seconds
CACHE_TTL ==
    [USER_PROFILE      |-> 24 * 60 * 60,
     REPO_STATS        |-> 6 * 60 * 60,
     SEARCH_RESULTS    |-> 12 * 60 * 60,
     CONTRIBUTION_DATA |-> 1 * 60 * 60]

(***************************************************************************)
(* github.ts: error classification                                         *)
(***************************************************************************)
NoStatus == 0
NoCode == "none"

\* An error object: its own status, its response's status, its code (or its
\* cause's), its name and whether its message contains "fetch failed".
MkError(status, respStatus, code, name, fetchFailed) ==
    [status |-> status, respStatus |-> respStatus, code |-> code,
     name |-> name, fetchFailed |-> fetchFailed]

NoError == MkError(NoStatus, NoStatus, NoCode, "none", FALSE)

getStatusCode(e) == IF e.status # NoStatus THEN e.status ELSE e.respStatus
getErrorCode(e) == e.code

RetryableStatuses == {408, 429, 500, 502, 503, 504}
RetryableCodes == {"ETIMEDOUT", "ECONNRESET", "ECONNREFUSED", "EAI_AGAIN"}

isRetryableError_all(e) == e = e
isRetryableError(e) ==
    \/ getStatusCode(e) # NoStatus /\ getStatusCode(e) \in RetryableStatuses
    \/ getErrorCode(e) # NoCode /\ getErrorCode(e) \in RetryableCodes
    \/ e.name = "AbortError"
    \/ e.fetchFailed

\* withRetries: the non-jittered delay before the attempt after `attempt`
backoff_rev(cfg, attempt) ==
    Min(cfg.maxDelay, cfg.baseDelay * Pow2(cfg.attempts - attempt))
backoff(cfg, attempt) ==
    Min(cfg.maxDelay, cfg.baseDelay * Pow2(attempt - 1))

\* withRetries: the catch block rethrows (no further attempt)
rethrows_late(cfg, attempt, e) ==
    attempt >= cfg.attempts + 1 \/ ~isRetryableError(e)
rethrows(cfg, attempt, e) ==
    attempt >= cfg.attempts \/ ~isRetryableError(e)

\* Math.floor(Math.random() * 200): the two ends of 0..199
Jitters == {0, 199}

(***************************************************************************)
(* github.ts: payloads and the cache's JSON text                           *)
(***************************************************************************)
\* A payload as the request functions return it: null (a 202 of the stats
\* endpoints) or an array of items.
JNull == [kind |-> "null", items |-> <<>>]
JArr(items) == [kind |-> "arr", items |-> items]
NoData == [kind |-> "none", items |-> <<>>]

Payloads == {JArr(<<>>), JArr(<<"a", "b">>)}

\* JSON.stringify / JSON.parse on those payloads, as a token list
JSONstringify(v) ==
    IF v.kind = "null" THEN <<"null">>
    ELSE <<"[">> \o v.items \o <<"]">>

JSONparse(s) ==
    IF s = <<"null">> THEN JNull
    ELSE JArr(SubSeq(s, 2, Len(s) - 1))

(***************************************************************************)
(* github.ts: the exported request functions                               *)
(***************************************************************************)
Ops == {"searchUsers", "getUser", "getUserContributions"}
\* the request functions whose fetchFn has a try/catch of its own
FileOps == {"getRepoReadme", "listRepoRootFiles"}
Args == {"x"}
CacheKeys == (Ops \cup FileOps) \X Args

\* the channel each function hands to rateLimiter.waitIfNeeded
channelOf(op) ==
    CASE op = "searchUsers" -> "search"
      [] op = "getUser" -> "rest"
      [] op = "getUserContributions" -> "graphql"
      [] OTHER -> "rest"

\* the ttlSeconds each function hands to getCachedOrFetch
ttlOf(op) ==
    CASE op = "searchUsers" -> CACHE_TTL.SEARCH_RESULTS
      [] op = "getUser" -> CACHE_TTL.USER_PROFILE
      [] op = "getUserContributions" -> CACHE_TTL.CONTRIBUTION_DATA
      [] op \in FileOps -> CACHE_TTL.REPO_STATS
      [] OTHER -> 0

\* what each function's fetchFn does to the rate limiter once withRetries has
\* returned the response: searchUsers and getUser call updateFromHeaders,
\* getUserContributions does not.
observeResponse(op, lim, headers) ==
    CASE op = "searchUsers" -> updateFromHeaders(lim, headers, "search")
      [] op = "getUser" -> updateFromHeaders(lim, headers, "rest")
      [] op \in FileOps -> updateFromHeaders(lim, headers, "rest")
      [] OTHER -> lim

\* getRepoReadme, listRepoRootFiles: the catch inside fetchFn returns null,
\* or [], and getCachedOrFetch goes on to store it
caughtFetch(c, e) ==
    [c EXCEPT !.pc = "store", !.outcome = "return",
              !.data = IF c.op = "getRepoReadme" THEN JNull ELSE JArr(<<>>)]

\* getUserContributions runs throttleGraphql() in its finally block
throttleMs(op) ==
    IF op = "getUserContributions" /\ GRAPHQL_THROTTLE_MS > 0
        THEN GRAPHQL_THROTTLE_MS ELSE 0

\* getCachedOrFetch: the entry counts as live
cacheLive(entry, t) == entry.present /\ entry.expiresAt > t

\* getCachedOrFetch: the expiry written with a fresh entry
expiresAtFor_seconds(t, ttlSeconds) == t + ttlSeconds
expiresAtFor(t, ttlSeconds) == t + ttlSeconds * 1000

NoEntry == [present |-> FALSE, responseData |-> <<>>, expiresAt |-> 0]
NoSummary ==
    [op |-> "none", arg |-> "none", outcome |-> "none", data |-> NoData,
     fetches |-> 0, stored |-> FALSE, storedAt |-> 0]

IdleCall ==
    [op |-> "none", arg |-> "none", pc |-> "idle",
     attempt |-> 0, trace |-> <<>>, delays |-> <<>>, sleeps |-> 0,
     error |-> NoError, data |-> NoData, outcome |-> "none",
     fromCache |-> FALSE, fetches |-> 0, wakeAt |-> 0,
     checkedAt |-> 0, stored |-> FALSE, storedAt |-> 0,
     gateInvoked |-> FALSE, gateLow |-> FALSE, gateResetAt |-> 0,
     gateCalledAt |-> 0, gateReturnedAt |-> 0, waited |-> 0,
     gated |-> FALSE, respHeaders |-> <<>>, responded |-> FALSE]

Summary(c) ==
    [op |-> c.op, arg |-> c.arg, outcome |-> c.outcome, data |-> c.data,
     fetches |-> c.fetches, stored |-> c.stored, storedAt |-> c.storedAt]

(***************************************************************************)
(* What upstream may answer                                                *)
(***************************************************************************)
ResetSoonSec == (StartNow \div 1000) + 2

\* rate-limit headers of a response: none at all, or remaining/reset/limit
RateHeaders(remaining, reset, limit) ==
    [h \in {"x-ratelimit-remaining", "x-ratelimit-reset", "x-ratelimit-limit"} |->
        CASE h = "x-ratelimit-remaining" -> remaining
          [] h = "x-ratelimit-reset" -> reset
          [] OTHER -> limit]

HeaderChoices ==
    { <<>>, RateHeaders(5, ResetSoonSec, 30), RateHeaders(100, ResetSoonSec, 5000) }

Err404 == MkError(404, NoStatus, NoCode, "HttpError", FALSE)
Err503 == MkError(503, NoStatus, NoCode, "HttpError", FALSE)

AllErrors ==
    { MkError(s, NoStatus, NoCode, "HttpError", FALSE) :
          s \in RetryableStatuses \cup {400, 401, 403, 404, 422} }
    \cup { MkError(NoStatus, s, NoCode, "HttpError", FALSE) : s \in {404, 429, 502} }
    \cup { MkError(404, 503, NoCode, "HttpError", FALSE) }
    \cup { MkError(NoStatus, NoStatus, c, "Error", FALSE) :
          c \in RetryableCodes \cup {"ENOTFOUND"} }
    \cup { MkError(NoStatus, NoStatus, NoCode, "AbortError", FALSE),
           MkError(NoStatus, NoStatus, NoCode, "TypeError", TRUE),
           MkError(NoStatus, NoStatus, NoCode, "TypeError", FALSE),
           MkError(404, NoStatus, "ECONNRESET", "HttpError", FALSE) }

(***************************************************************************)
(* The request functions, step by step                                     *)
(***************************************************************************)
Key(c) == <<c.op, c.arg>>

\* A request function is called: rateLimiter.waitIfNeeded(channel) runs up
\* to its setTimeout (or returns at once).
StartCall(op, arg) ==
    /\ call.pc \in {"idle", "done"}
    /\ calls < MaxCalls
    /\ calls' = calls + 1
    /\ prev' = IF call.pc = "done" THEN Summary(call) ELSE NoSummary
    /\ LET ch == channelOf(op)
           w == waitMs(limits, ch, now)
       IN call' = [IdleCall EXCEPT
                      !.op = op, !.arg = arg,
                      !.pc = IF w > 0 THEN "gate_wait" ELSE "cache_check",
                      !.wakeAt = IF w > 0 THEN now + w ELSE 0,
                      !.gateInvoked = TRUE,
                      !.gateLow = limits[ch].remaining <= buffer(ch),
                      !.gateResetAt = limits[ch].resetAt,
                      !.gateCalledAt = now,
                      !.gateReturnedAt = now,
                      !.waited = w,
                      !.gated = (w = 0)]
    /\ UNCHANGED <<now, ticks, limits, cache, config, upstreamErrors, nonExecVars>>

\* waitIfNeeded's timer fires and waitIfNeeded returns
GateWake ==
    /\ call.pc = "gate_wait"
    /\ now >= call.wakeAt
    /\ call' = [call EXCEPT !.pc = "cache_check", !.gateReturnedAt = now,
                            !.gated = TRUE, !.wakeAt = 0]
    /\ UNCHANGED <<now, ticks, limits, cache, prev, calls, config, upstreamErrors, nonExecVars>>

\* getCachedOrFetch: findUnique, then either the cached value or fetchFn()
CacheCheck ==
    /\ call.pc = "cache_check"
    /\ LET entry == cache[Key(call)]
           c == [call EXCEPT !.checkedAt = now, !.gateLow = FALSE,
                             !.gateResetAt = 0, !.gateCalledAt = 0,
                             !.gateReturnedAt = 0]
       IN IF cacheLive(entry, now)
            THEN call' = [c EXCEPT !.pc = "done", !.outcome = "return",
                                   !.data = JSONparse(entry.responseData),
                                   !.fromCache = TRUE]
            ELSE call' = [c EXCEPT !.pc = "attempt", !.attempt = 1,
                                   !.fetches = @ + 1]
    /\ UNCHANGED <<now, ticks, limits, cache, prev, calls, config, upstreamErrors, nonExecVars>>

\* where a request function goes once withRetries has returned or thrown
AfterFetch(c, outcome) ==
    IF c.op = "withRetries" THEN [c EXCEPT !.pc = "done", !.outcome = outcome]
    ELSE IF throttleMs(c.op) > 0
        THEN [c EXCEPT !.pc = "throttle", !.outcome = outcome,
                       !.wakeAt = now + throttleMs(c.op)]
    ELSE IF outcome = "throw" THEN [c EXCEPT !.pc = "done", !.outcome = outcome]
    ELSE [c EXCEPT !.pc = "store", !.outcome = outcome]

\* withRetries: fn() resolves; the function's fetchFn goes on synchronously
AttemptOk(headers, payload) ==
    /\ call.pc = "attempt"
    /\ limits' = observeResponse(call.op, limits, headers)
    /\ call' = AfterFetch(
          [call EXCEPT !.trace = Append(@, [ok |-> TRUE, payload |-> payload,
                                            error |-> NoError]),
                       !.data = payload, !.gated = FALSE,
                       !.respHeaders = headers, !.responded = TRUE],
          "return")
    /\ UNCHANGED <<now, ticks, cache, prev, calls, config, upstreamErrors, nonExecVars>>

\* withRetries: fn() rejects with e; the catch block rethrows or sleeps
AttemptFail(e, jitter) ==
    /\ call.pc = "attempt"
    /\ call.op \notin FileOps
    /\ LET c == [call EXCEPT !.trace = Append(@, [ok |-> FALSE, payload |-> NoData,
                                                  error |-> e]),
                             !.gated = FALSE]
           d == backoff(config, call.attempt)
       IN IF rethrows(config, call.attempt, e)
            THEN call' = AfterFetch([c EXCEPT !.error = e], "throw")
            ELSE call' = [c EXCEPT !.delays = Append(@, d), !.sleeps = @ + 1,
                                   !.pc = IF d + jitter > 0 THEN "backoff" ELSE "attempt",
                                   !.attempt = IF d + jitter > 0 THEN @ ELSE @ + 1,
                                   !.wakeAt = IF d + jitter > 0 THEN now + d + jitter ELSE 0]
    /\ UNCHANGED <<now, ticks, limits, cache, prev, calls, config, upstreamErrors, nonExecVars>>

\* getRepoReadme, listRepoRootFiles: the octokit call rejects with e inside
\* fetchFn's own try block (there is no withRetries around it)
FileAttemptFail(e) ==
    /\ call.pc = "attempt"
    /\ call.op \in FileOps
    /\ call' = caughtFetch(
          [call EXCEPT !.trace = Append(@, [ok |-> FALSE, payload |-> NoData,
                                            error |-> e]),
                       !.gated = FALSE],
          e)
    /\ UNCHANGED <<now, ticks, limits, cache, prev, calls, config, upstreamErrors, nonExecVars>>

\* withRetries: sleep(backoff + jitter) is over, the loop goes round
BackoffWake ==
    /\ call.pc = "backoff"
    /\ now >= call.wakeAt
    /\ call' = [call EXCEPT !.pc = "attempt", !.attempt = @ + 1, !.wakeAt = 0]
    /\ UNCHANGED <<now, ticks, limits, cache, prev, calls, config, upstreamErrors, nonExecVars>>

\* getUserContributions: throttleGraphql() of the finally block is over
ThrottleWake ==
    /\ call.pc = "throttle"
    /\ now >= call.wakeAt
    /\ call' = [call EXCEPT !.pc = IF call.outcome = "throw" THEN "done" ELSE "store",
                            !.wakeAt = 0]
    /\ UNCHANGED <<now, ticks, limits, cache, prev, calls, config, upstreamErrors, nonExecVars>>

\* getCachedOrFetch: aPICache.upsert, then return data
Store ==
    /\ call.pc = "store"
    /\ cache' = [cache EXCEPT ![Key(call)] =
                    [present |-> TRUE,
                     responseData |-> JSONstringify(call.data),
                     expiresAt |-> expiresAtFor(now, ttlOf(call.op))]]
    /\ call' = [call EXCEPT !.pc = "done", !.stored = TRUE, !.storedAt = now]
    /\ UNCHANGED <<now, ticks, limits, prev, calls, config, upstreamErrors, nonExecVars>>

\* withRetries called on a wrapped call of its own (no cache, no limiter)
StartRetries ==
    /\ call.pc = "idle"
    /\ calls' = calls + 1
    /\ call' = [IdleCall EXCEPT !.op = "withRetries", !.pc = "attempt", !.attempt = 1]
    /\ UNCHANGED <<now, ticks, limits, cache, prev, config, upstreamErrors, nonExecVars>>

(***************************************************************************)
(* The clock                                                               *)
(***************************************************************************)
Sleeping == call.pc \in {"gate_wait", "backoff", "throttle"}

\* time passes between two calls: five seconds, or the longest cache lifetime
TickSteps == {5 * 1000, CACHE_TTL.USER_PROFILE * 1000}

Tick(d) ==
    /\ call.pc = "done"
    /\ calls < MaxCalls
    /\ ticks < MaxTicks
    /\ ticks' = ticks + 1
    /\ now' = now + d
    /\ UNCHANGED <<limits, cache, call, prev, calls, config, upstreamErrors, nonExecVars>>

\* time passes up to the pending timer's deadline
AdvanceToTimer ==
    /\ Sleeping
    /\ now < call.wakeAt
    /\ now' = call.wakeAt
    /\ UNCHANGED <<ticks, limits, cache, call, prev, calls, config, upstreamErrors, nonExecVars>>

(***************************************************************************)
(* Idle values of the handler, sampler and report components               *)
(***************************************************************************)
IdleReport ==
    [pc |-> "idle", endpoint |-> "none", cohort |-> {}, rows |-> {}, repoData |-> FALSE,
     start |-> <<0, 0, 0>>, end |-> <<0, 0, 0>>, entries |-> <<>>, periods |-> <<>>,
     empty |-> FALSE, nowYm |-> <<0, 0>>, status |-> 0, error |-> "none",
     distribution |-> [n |-> 0, deltas |-> <<>>, mean |-> <<0, 1>>,
                       pctPositive |-> <<0, 1>>]]

(***************************************************************************)
(* 32-bit integers of the seeded sampler, as <<high 16 bits, low 16 bits>> *)
(***************************************************************************)
Half == Pow2(16)
Byte == Pow2(8)

ToU32(n) == <<(n \div Half) % Half, n % Half>>

\* (a + b) >>> 0
Add32(a, b) ==
    LET lo == a[2] + b[2]
    IN <<(a[1] + b[1] + (lo \div Half)) % Half, lo % Half>>

\* a + b leaves the 32 bits
Overflows32(a, b) == a[1] + b[1] + ((a[2] + b[2]) \div Half) >= Half

RECURSIVE XorBits(_, _, _)
XorBits(x, y, n) ==
    IF n = 0 THEN 0
    ELSE (((x % 2) + (y % 2)) % 2) + 2 * XorBits(x \div 2, y \div 2, n - 1)

RECURSIVE OrBits(_, _, _)
OrBits(x, y, n) ==
    IF n = 0 THEN 0
    ELSE (IF (x % 2) + (y % 2) > 0 THEN 1 ELSE 0) + 2 * OrBits(x \div 2, y \div 2, n - 1)

\* a ^ b, a | b
Xor32(a, b) == <<XorBits(a[1], b[1], 16), XorBits(a[2], b[2], 16)>>
Or32(a, b) == <<OrBits(a[1], b[1], 16), OrBits(a[2], b[2], 16)>>

\* a >>> k, for 0 < k < 16
Shr32(a, k) ==
    <<a[1] \div Pow2(k), (a[2] \div Pow2(k)) + (a[1] % Pow2(k)) * Pow2(16 - k)>>

\* Math.imul(a, b): the low 32 bits of the product, by bytes
Imul(a, b) ==
    LET a0 == a[2] % Byte  a1 == a[2] \div Byte
        a2 == a[1] % Byte  a3 == a[1] \div Byte
        b0 == b[2] % Byte  b1 == b[2] \div Byte
        b2 == b[1] % Byte  b3 == b[1] \div Byte
        k0 == a0 * b0
        k1 == (k0 \div Byte) + a0 * b1 + a1 * b0
        k2 == (k1 \div Byte) + a0 * b2 + a1 * b1 + a2 * b0
        k3 == (k2 \div Byte) + a0 * b3 + a1 * b2 + a2 * b1 + a3 * b0
    IN <<(k3 % Byte) * Byte + (k2 % Byte), (k1 % Byte) * Byte + (k0 % Byte)>>

(***************************************************************************)
(* route.ts: the seeded sampler                                            *)
(***************************************************************************)
MaxSamplerRuns == 2

NullFollowers == -1

USER_BANDS ==
    << [tier |-> "top", minFollowers |-> 10000, maxFollowers |-> NullFollowers, target |-> 100],
       [tier |-> "top", minFollowers |-> 5000, maxFollowers |-> 10000, target |-> 100],
       [tier |-> "mid", minFollowers |-> 2000, maxFollowers |-> 5000, target |-> 100],
       [tier |-> "mid", minFollowers |-> 1000, maxFollowers |-> 2000, target |-> 100],
       [tier |-> "mid", minFollowers |-> 500, maxFollowers |-> 1000, target |-> 100],
       [tier |-> "casual", minFollowers |-> 300, maxFollowers |-> 500, target |-> 100],
       [tier |-> "casual", minFollowers |-> 200, maxFollowers |-> 300, target |-> 100],
       [tier |-> "casual", minFollowers |-> 150, maxFollowers |-> 200, target |-> 100],
       [tier |-> "casual", minFollowers |-> 100, maxFollowers |-> 150, target |-> 100],
       [tier |-> "casual", minFollowers |-> 50, maxFollowers |-> 100, target |-> 100] >>

\* the band seed stuck at 0xffffffff instead of wrapping round
makeBandSeed_saturating(baseSeed, minFollowers, maxFollowers) ==
    LET max == IF maxFollowers = NullFollowers THEN 0 ELSE maxFollowers
        off == ToU32(minFollowers * 31 + max * 17)
    IN IF Overflows32(baseSeed, off) THEN <<Half - 1, Half - 1>>
       ELSE Add32(baseSeed, off)

\* makeBandSeed: (baseSeed + minFollowers * 31 + max * 17) >>> 0
makeBandSeed(baseSeed, minFollowers, maxFollowers) ==
    LET max == IF maxFollowers = NullFollowers THEN 0 ELSE maxFollowers
    IN Add32(baseSeed, ToU32(minFollowers * 31 + max * 17))

\* mulberry32 seeded from the seed and the number of runs made so far
mulberry32Seed_counter(seed) == Add32(seed, ToU32(Len(sampler.out)))

\* mulberry32: let t = seed >>> 0
mulberry32Seed(seed) == seed

\* mulberry32: t += 0x6d2b79f5
mulberry32Next(t) == Add32(t, <<27947, 31221>>)

\* mulberry32: the 32-bit numerator of the value returned for state t
mulberry32Out(t) ==
    LET r1 == Imul(Xor32(t, Shr32(t, 15)), Or32(t, ToU32(1)))
        r2 == Xor32(r1, Add32(r1, Imul(Xor32(r1, Shr32(r1, 7)), Or32(r1, ToU32(61)))))
    IN Xor32(r2, Shr32(r2, 14))

\* shuffleInPlace: Math.floor(rng() * (i + 1)), rng() = v / 4294967296
pick(v, n) == (v[1] * n + ((v[2] * n) \div Half)) \div Half

\* shuffleInPlace: [items[i], items[j]] = [items[j], items[i]], 0-based
swap(items, i, j) ==
    [items EXCEPT ![i + 1] = items[j + 1], ![j + 1] = items[i + 1]]

\* Array.from(new Map(results.map((r) => [r.id, r])).values())
RECURSIVE dedupe(_)
dedupe(results) ==
    IF results = <<>> THEN <<>>
    ELSE LET init == dedupe(SubSeq(results, 1, Len(results) - 1))
             last == results[Len(results)]
         IN IF last \in Range(init) THEN init ELSE Append(init, last)

\* the base seeds: small, large, and close to the 2^32 wrap
BaseSeeds == {ToU32(42), ToU32(0), <<32768, 7>>, <<Half - 1, Half - 1>>, <<Half - 1, 60000>>}

\* what the search answers, by order; ids of users (pagesPerOrder = 1)
SearchPages ==
    { [desc |-> <<1, 2, 3>>, asc |-> <<4, 5>>],
      [desc |-> <<1, 2, 3>>, asc |-> <<3, 4, 1>>],
      [desc |-> <<7>>, asc |-> <<>>] }
Orders == <<"desc", "asc">>
\* band targets: usersPerBand is any finite number the query carries
Targets == {2, 100, 0, -1}
SampledBands == {8, 9}

IdleSampler ==
    [pc |-> "idle", baseSeed |-> ToU32(0), pages |-> [desc |-> <<>>, asc |-> <<>>],
     band |-> 0, target |-> 0, seeds |-> <<>>, order |-> 0, results |-> <<>>,
     deduped |-> <<>>, items |-> <<>>, i |-> 0, t |-> ToU32(0),
     out |-> <<>>, threw |-> 0]

\* syncUsers: const bandSeed = makeBandSeed(baseSeed, band.minFollowers, band.maxFollowers)
SeedBand ==
    /\ sampler.pc = "seed"
    /\ LET k == Len(sampler.seeds) + 1
           band == USER_BANDS[k]
       IN sampler' = [sampler EXCEPT
             !.seeds = Append(@, makeBandSeed(sampler.baseSeed, band.minFollowers,
                                              band.maxFollowers)),
             !.pc = IF k = Len(USER_BANDS) THEN "ready" ELSE "seed"]
    /\ UNCHANGED nonSamplerVars

\* sampleUsersFromBand is called for the band
SamplerStart ==
    /\ sampler.pc \in {"ready", "returned", "threw"}
    /\ Len(sampler.out) + sampler.threw < MaxSamplerRuns
    /\ sampler' = [sampler EXCEPT !.pc = "search", !.order = 1, !.results = <<>>,
                                  !.deduped = <<>>, !.items = <<>>, !.i = 0]
    /\ UNCHANGED nonSamplerVars

\* searchUsers(minFollowers, maxFollowers, perPage, page, order) resolved
SearchPage ==
    /\ sampler.pc = "search"
    /\ sampler' = [sampler EXCEPT
          !.results = @ \o sampler.pages[Orders[sampler.order]],
          !.order = @ + 1,
          !.pc = IF sampler.order = Len(Orders) THEN "dedupe" ELSE "search"]
    /\ UNCHANGED nonSamplerVars

\* searchUsers threw: sampleUsersFromBand throws with it
SearchPageFails ==
    /\ sampler.pc = "search"
    /\ sampler.threw = 0
    /\ sampler' = [sampler EXCEPT !.pc = "threw", !.threw = 1]
    /\ UNCHANGED nonSamplerVars

\* the results are deduplicated by id and the generator is seeded
Dedupe ==
    /\ sampler.pc = "dedupe"
    /\ LET d == dedupe(sampler.results)
       IN sampler' = [sampler EXCEPT
             !.deduped = d, !.items = d, !.i = Len(d) - 1,
             !.t = mulberry32Seed(sampler.seeds[sampler.band]),
             !.pc = "shuffle"]
    /\ UNCHANGED nonSamplerVars

\* shuffleInPlace: one round of the loop, i from length - 1 down to 1
ShuffleStep ==
    /\ sampler.pc = "shuffle"
    /\ sampler.i > 0
    /\ LET t == mulberry32Next(sampler.t)
           j == pick(mulberry32Out(t), sampler.i + 1)
       IN sampler' = [sampler EXCEPT !.t = t, !.i = @ - 1,
                                     !.items = swap(@, sampler.i, j)]
    /\ UNCHANGED nonSamplerVars

\* Array.prototype.slice(0, end) for an integer end: a negative end counts
\* from the end of the array
sliceTo(items, end) ==
    LET len == Len(items)
        final == IF end < 0 THEN Max(len + end, 0) ELSE Min(end, len)
    IN SubSeq(items, 1, final)

\* return deduped.slice(0, target)
Slice ==
    /\ sampler.pc = "shuffle"
    /\ sampler.i <= 0
    /\ sampler' = [sampler EXCEPT
          !.out = Append(@, sliceTo(sampler.items, sampler.target)),
          !.pc = "returned"]
    /\ UNCHANGED nonSamplerVars


(***************************************************************************)
(* route.ts POST /api/sync and adoption route POST: the job around a sync  *)
(***************************************************************************)
MaxInvocations == 2
MaxFaults == 2

Routes == {"sync", "adoption"}
JobTypes == {"users", "repos", "all"}

\* what sampleUsersFromBand returns for each band of the band table, and
\* what fetchReposForLanguage returns for each tracked language
BandCandidates == << <<"u1", "u2">>, <<"u3">> >>
LanguageRepos == << <<"r1", "r2">>, <<"r3">> >>
\* the three try blocks of syncRepos' loop body, in the order of the code
FeedOrder == <<"stats", "prs", "issues">>
Feeds == Range(FeedOrder)

AllCandidates == UNION {Range(BandCandidates[b]) : b \in DOMAIN BandCandidates}
AllRepos == UNION {Range(LanguageRepos[l]) : l \in DOMAIN LanguageRepos}

\* error.message of what can be thrown inside the handler
SearchFailed == "search failed"
RepoUpsertFailed == "unique constraint failed: SampledRepo.fullName"
SignalsFailed == "adoption scan failed"
StoreFailed == "database is locked"
NoMessage == "none"

IdleHandler ==
    [route |-> "none", type |-> "none", pc |-> "idle", n |-> 0,
     jobId |-> 0, itemsProcessed |-> 0, processed |-> 0, count |-> 0,
     band |-> 0, cand |-> 0, lang |-> 0, repo |-> 0,
     error |-> NoMessage, response |-> "none", faults |-> 0,
     escaped |-> NoMessage, committedAtEscape |-> {},
     kinds |-> {}, visited |-> {},
     feed |-> 0, tried |-> {}, fed |-> {}]

shouldSyncUsers(type) == type \in {"users", "all"}
shouldSyncRepos(type) == type \in {"repos", "all"}

\* prisma.syncJob.create: data { jobType, status: "running", ... }
NewJob(jobType) ==
    [jobType |-> jobType, status |-> "running", errorMessage |-> NoMessage,
     itemsProcessed |-> 0, updates |-> 0]

\* POST: syncRepos returned, or was not asked for
afterRepos(h) ==
    [h EXCEPT !.itemsProcessed = @ + h.count, !.pc = "complete"]

\* POST: syncUsers returned, or was not asked for
afterUsers(h) ==
    LET g == [h EXCEPT !.itemsProcessed = @ + h.processed]
    IN IF shouldSyncRepos(h.type)
         THEN [g EXCEPT !.pc = "repos_fetch", !.lang = 1]
         ELSE [g EXCEPT !.pc = "complete"]

\* one candidate of a band, then on to the next band
nextCandidate_oneEach(h) ==
    IF h.band < Len(BandCandidates)
      THEN [h EXCEPT !.band = @ + 1, !.cand = 0, !.pc = "users_sample"]
    ELSE afterUsers(h)

\* syncUsers: on to the next candidate, the next band, or out of the loops
nextCandidate(h) ==
    IF h.cand < Len(BandCandidates[h.band])
      THEN [h EXCEPT !.cand = @ + 1]
    ELSE IF h.band < Len(BandCandidates)
      THEN [h EXCEPT !.band = @ + 1, !.cand = 0, !.pc = "users_sample"]
    ELSE afterUsers(h)

\* syncRepos: on to the next repository, the next language, or out of the loops
nextRepo(h) ==
    IF h.repo < Len(LanguageRepos[h.lang])
      THEN [h EXCEPT !.repo = @ + 1, !.pc = "repos_upsert"]
    ELSE IF h.lang < Len(LanguageRepos)
      THEN [h EXCEPT !.lang = @ + 1, !.repo = 0, !.pc = "repos_fetch"]
    ELSE afterRepos(h)

\* syncRepos: on to the next try block of the repository, or out of the body
nextFeed(h) ==
    IF h.feed < Len(FeedOrder) THEN [h EXCEPT !.feed = @ + 1]
    ELSE nextRepo([h EXCEPT !.feed = 0])

\* a catch that gives the rest of the repository up
feedCaught_leaves(h) == nextRepo([h EXCEPT !.feed = 0])

\* syncRepos: the catch of a feed's try block swallows what was thrown
feedCaught(h) == nextFeed(h)

\* an exception leaves syncUsers or syncRepos and lands in POST's catch
escapes(h, message, kind) ==
    [h EXCEPT !.pc = "catch", !.error = message, !.escaped = message,
              !.committedAtEscape = committed,
              !.kinds = @ \cup {kind}, !.faults = @ + 1]

CanFault == handler.faults < MaxFaults

\* the row marked failed without the message of what was caught
failedJob_noMessage(row, h) ==
    [row EXCEPT !.status = "failed", !.updates = @ + 1]

\* catch: data { status: "failed", completedAt, itemsProcessed, errorMessage:
\* error.message }; the adoption route writes no itemsProcessed
failedJob(row, h) ==
    [row EXCEPT !.status = "failed", !.updates = @ + 1,
                !.errorMessage = h.error,
                !.itemsProcessed = IF h.route = "sync" THEN h.itemsProcessed ELSE @]

\* a POST request arrives
PostStart(route, type) ==
    /\ handler.pc \in {"idle", "done"}
    /\ handler.n < MaxInvocations
    /\ route = "adoption" => type = "all"
    /\ handler' = [IdleHandler EXCEPT !.route = route, !.type = type,
                                      !.pc = "create", !.n = handler.n + 1]
    /\ UNCHANGED <<nonJobVars, syncJob, committed>>

\* prisma.syncJob.create
JobCreate ==
    /\ handler.pc = "create"
    /\ syncJob' = Append(syncJob,
          NewJob(IF handler.route = "adoption" THEN "adoption" ELSE handler.type))
    /\ handler' =
          LET h == [handler EXCEPT !.jobId = Len(syncJob) + 1]
          IN IF h.route = "adoption" THEN [h EXCEPT !.pc = "adoption"]
             ELSE IF shouldSyncUsers(h.type)
               THEN [h EXCEPT !.pc = "users_sample", !.band = 1]
             ELSE afterUsers(h)
    /\ UNCHANGED <<nonJobVars, committed>>

\* prisma.syncJob.create throws: the handler rejects before its try block
JobCreateFails ==
    /\ handler.pc = "create"
    /\ CanFault
    /\ handler' = [handler EXCEPT !.pc = "done", !.response = "unhandled",
                                  !.error = StoreFailed, !.faults = @ + 1,
                                  !.kinds = @ \cup {"store"}]
    /\ UNCHANGED <<nonJobVars, syncJob, committed>>

\* syncUsers: sampleUsersFromBand returned the band's candidates
SampleBand ==
    /\ handler.pc = "users_sample"
    /\ handler' = [handler EXCEPT !.pc = "users_upsert", !.cand = 1]
    /\ UNCHANGED <<nonJobVars, syncJob, committed>>

\* syncUsers: sampleUsersFromBand threw (a search page failed all its attempts)
SampleBandFails ==
    /\ handler.pc = "users_sample"
    /\ CanFault
    /\ handler' = escapes(handler, SearchFailed, "search")
    /\ UNCHANGED <<nonJobVars, syncJob, committed>>

\* syncUsers: upsertUser returned ok; a rejected user's row is gone
UpsertUserReturns(ok) ==
    /\ handler.pc = "users_upsert"
    /\ LET u == BandCandidates[handler.band][handler.cand]
       IN /\ committed' = IF ok THEN committed \cup {u} ELSE committed \ {u}
          /\ handler' = nextCandidate(
                [handler EXCEPT !.processed = IF ok THEN @ + 1 ELSE @,
                                !.visited = @ \cup {u}])
    /\ UNCHANGED <<nonJobVars, syncJob>>

\* syncUsers: upsertUser threw, the catch logs it
UpsertUserThrows ==
    /\ handler.pc = "users_upsert"
    /\ CanFault
    /\ LET u == BandCandidates[handler.band][handler.cand]
       IN handler' = nextCandidate(
              [handler EXCEPT !.visited = @ \cup {u}, !.faults = @ + 1,
                              !.kinds = @ \cup {"entity"}])
    /\ UNCHANGED <<nonJobVars, syncJob, committed>>

\* syncRepos: fetchReposForLanguage returned the language's repositories
FetchRepos ==
    /\ handler.pc = "repos_fetch"
    /\ handler' = [handler EXCEPT !.pc = "repos_upsert", !.repo = 1]
    /\ UNCHANGED <<nonJobVars, syncJob, committed>>

\* syncRepos: fetchReposForLanguage threw
FetchReposFails ==
    /\ handler.pc = "repos_fetch"
    /\ CanFault
    /\ handler' = escapes(handler, SearchFailed, "search")
    /\ UNCHANGED <<nonJobVars, syncJob, committed>>

\* syncRepos: await upsertRepo(...); count++
UpsertRepo ==
    /\ handler.pc = "repos_upsert"
    /\ LET r == LanguageRepos[handler.lang][handler.repo]
       IN /\ committed' = committed \cup {r}
          /\ handler' = [handler EXCEPT !.count = @ + 1, !.pc = "repos_feeds",
                                        !.visited = @ \cup {r},
                                        !.feed = 1]
    /\ UNCHANGED <<nonJobVars, syncJob>>

\* syncRepos: upsertRepo threw; the call is in no try block
UpsertRepoFails ==
    /\ handler.pc = "repos_upsert"
    /\ CanFault
    /\ LET r == LanguageRepos[handler.lang][handler.repo]
       IN handler' = escapes([handler EXCEPT !.visited = @ \cup {r}],
                             RepoUpsertFailed, "entity")
    /\ UNCHANGED <<nonJobVars, syncJob, committed>>

\* syncRepos: contributor stats, PRs and issues, each in a try block of its
\* own, taken as one step: the job row depends only on whether any of them
\* threw, and which of them ran is not recorded by this step
RepoFeeds(failed) ==
    /\ handler.pc = "repos_feeds"
    /\ failed # {} => CanFault
    /\ handler' = nextRepo(
          IF failed = {} THEN [handler EXCEPT !.feed = 0]
          ELSE [handler EXCEPT !.feed = 0, !.faults = @ + 1,
                               !.kinds = @ \cup {"entity"}])
    /\ UNCHANGED <<nonJobVars, syncJob, committed>>

\* syncRepos: the try blocks one at a time. The feed's fetch and its
\* processRepo... returned
RepoFeedReturns ==
    /\ handler.pc = "repos_feeds"
    /\ LET r == LanguageRepos[handler.lang][handler.repo]
           f == FeedOrder[handler.feed]
       IN handler' = nextFeed(
              [handler EXCEPT !.tried = @ \cup {<<r, f>>},
                              !.fed = @ \cup {<<r, f>>}])
    /\ UNCHANGED <<nonJobVars, syncJob, committed>>

\* syncRepos: the feed's fetch or its processRepo... threw inside its try block
RepoFeedThrows ==
    /\ handler.pc = "repos_feeds"
    /\ CanFault
    /\ LET r == LanguageRepos[handler.lang][handler.repo]
           f == FeedOrder[handler.feed]
       IN handler' = feedCaught(
              [handler EXCEPT !.tried = @ \cup {<<r, f>>},
                              !.faults = @ + 1, !.kinds = @ \cup {"entity"}])
    /\ UNCHANGED <<nonJobVars, syncJob, committed>>

\* adoption POST: syncAISignals returned
AISignals ==
    /\ handler.pc = "adoption"
    /\ handler' = [handler EXCEPT !.pc = "complete", !.itemsProcessed = 1]
    /\ UNCHANGED <<nonJobVars, syncJob, committed>>

AISignalsFails ==
    /\ handler.pc = "adoption"
    /\ CanFault
    /\ handler' = [handler EXCEPT !.pc = "catch", !.error = SignalsFailed,
                                  !.faults = @ + 1, !.kinds = @ \cup {"scan"}]
    /\ UNCHANGED <<nonJobVars, syncJob, committed>>

\* prisma.syncJob.update: status "completed"; then the success response
UpdateCompleted ==
    /\ handler.pc = "complete"
    /\ syncJob' = [syncJob EXCEPT ![handler.jobId] =
          [@ EXCEPT !.status = "completed", !.updates = @ + 1,
                    !.itemsProcessed = handler.itemsProcessed]]
    /\ handler' = [handler EXCEPT !.pc = "done", !.response = "200"]
    /\ UNCHANGED <<nonJobVars, committed>>

\* the update to "completed" throws inside the try block
UpdateCompletedFails ==
    /\ handler.pc = "complete"
    /\ CanFault
    /\ handler' = [handler EXCEPT !.pc = "catch", !.error = StoreFailed,
                                  !.faults = @ + 1, !.kinds = @ \cup {"store"}]
    /\ UNCHANGED <<nonJobVars, syncJob, committed>>

\* catch: prisma.syncJob.update: status "failed", errorMessage; then the 500
UpdateFailed ==
    /\ handler.pc = "catch"
    /\ syncJob' = [syncJob EXCEPT ![handler.jobId] = failedJob(@, handler)]
    /\ handler' = [handler EXCEPT !.pc = "done", !.response = "500"]
    /\ UNCHANGED <<nonJobVars, committed>>

\* catch: the update to "failed" throws. /api/sync logs the dbError and still
\* answers 500; /api/adoption has no inner try and rejects
UpdateFailedFails ==
    /\ handler.pc = "catch"
    /\ CanFault
    /\ handler' = [handler EXCEPT
          !.pc = "done",
          !.response = IF handler.route = "sync" THEN "500" ELSE "unhandled",
          !.faults = @ + 1, !.kinds = @ \cup {"store"}]
    /\ UNCHANGED <<nonJobVars, syncJob, committed>>

(***************************************************************************)
(* route.ts: per-user onboarding (upsertUser, called from syncUsers)       *)
(***************************************************************************)
MaxRuns == 2
MaxFailures == 2

BASELINE_YEARS == <<2020, 2021>>
BASELINE_MIN_CONTRIBUTIONS == 50
years == <<2020, 2021, 2022, 2023, 2024, 2025>>
chunkSize == 200

baselineYears == Range(BASELINE_YEARS)
postYears == SelectSeq(years, LAMBDA y : y \notin baselineYears)

\* the search results handed to upsertUser, by login
Candidates == {"alice", "dependabot[bot]"}
endsWithBot(login) == login = "dependabot[bot]"

\* the account type alone decides
skipsProfile_typeOnly(type, login) == type # "User"

\* upsertUser: userDetails.type !== "User" || searchResult.login.endsWith("[bot]")
skipsProfile(type, login) == type # "User" \/ endsWithBot(login)

\* contributionCalendar of one year: the contributionCount of its days
BaselineCalendars == {<<0, 0>>, <<25, 0>>, <<5, 25>>}
PostCalendars ==
    { [y \in Range(postYears) |-> <<0, 0>>],
      [y \in Range(postYears) |-> <<0, 7>>],
      [y \in Range(postYears) |-> IF y = 2023 THEN <<3, 4>> ELSE <<0, 0>>] }

Calendars ==
    { [y \in Range(years) |->
          IF y = 2020 THEN b1 ELSE IF y = 2021 THEN b2 ELSE p[y]] :
      b1 \in BaselineCalendars, b2 \in BaselineCalendars, p \in PostCalendars }

NoCalendar == [y \in Range(years) |-> <<0, 0>>]

NoUser ==
    [present |-> FALSE, tier |-> "none", totalContributions |-> 0,
     baselineContributions |-> 0]

\* what the upsertUser call before the current one did and left in the store
NoRun ==
    [user |-> "none", accepted |-> FALSE, clean |-> FALSE, present |-> FALSE,
     baselineContributions |-> 0]

IdleOb ==
    [user |-> "none", tier |-> "none", pc |-> "idle",
     phase |-> "none", idx |-> 0, rows |-> <<>>, i |-> 0,
     totalContributions |-> 0, baselineContributions |-> 0,
     baselineFetchFailed |-> FALSE,
     outcome |-> "none", result |-> FALSE,
     reachedGate |-> FALSE, threw |-> {}, wrote |-> 0, failures |-> 0,
     hadRow |-> FALSE, passed |-> FALSE, attempted |-> {}, last |-> NoRun]

RunSummary(o, row) ==
    IF o.pc # "done" THEN NoRun
    ELSE [user |-> o.user,
          accepted |-> (o.outcome = "return" /\ o.result),
          clean |-> (o.outcome = "return" /\ o.failures = 0),
          present |-> row.present,
          baselineContributions |-> row.baselineContributions]

\* collectYear: the rows built from a year's calendar (days with count > 0)
RECURSIVE rowsOf(_, _, _)
rowsOf(year, cal, d) ==
    IF d > Len(cal) THEN <<>>
    ELSE (IF cal[d] > 0
            THEN <<[date |-> <<year, d>>, contributionCount |-> cal[d]]>>
            ELSE <<>>) \o rowsOf(year, cal, d + 1)

RECURSIVE countOf(_)
countOf(rows) ==
    IF rows = <<>> THEN 0 ELSE Head(rows).contributionCount + countOf(Tail(rows))

\* upsertUserContributionMetricsBatch: INSERT ... ON CONFLICT(date, userId)
\* DO UPDATE SET contributionCount = excluded.contributionCount
upsertUserContributionMetricsBatch(m, userId, rows) ==
    LET dates == {rows[k].date : k \in DOMAIN rows}
    IN {r \in m : ~(r.userId = userId /\ r.date \in dates)}
       \cup {[userId |-> userId, date |-> rows[k].date,
              contributionCount |-> rows[k].contributionCount] : k \in DOMAIN rows}

\* sampledUser.delete: UserContributionMetrics.userId is ON DELETE CASCADE
deleteCascade(m, userId) == {r \in m : r.userId # userId}

\* totals added to what the row holds instead of replacing it
updateTotals_increment(row, total, baseline) ==
    [row EXCEPT !.totalContributions = @ + total,
                !.baselineContributions = @ + baseline]

\* prisma.sampledUser.update: data: { totalContributions, baselineContributions }
updateTotals(row, total, baseline) ==
    [row EXCEPT !.totalContributions = total,
                !.baselineContributions = baseline]

\* upsertUser: the baseline gate
gateRejects_threshold_only(failed, baseline) ==
    baseline < BASELINE_MIN_CONTRIBUTIONS
gateRejects(failed, baseline) ==
    failed \/ baseline < BASELINE_MIN_CONTRIBUTIONS

curYear(o) ==
    IF o.phase = "baseline" THEN BASELINE_YEARS[o.idx] ELSE postYears[o.idx]

\* the year loops: on to the next year, or past the loop
nextYear(o) ==
    LET list == IF o.phase = "baseline" THEN BASELINE_YEARS ELSE postYears
    IN IF o.idx < Len(list)
         THEN [o EXCEPT !.idx = @ + 1, !.pc = "fetch", !.rows = <<>>, !.i = 0]
         ELSE [o EXCEPT !.pc = IF o.phase = "baseline" THEN "gate" ELSE "update",
                        !.rows = <<>>, !.i = 0]

\* a post-baseline failure that would end the loop over the post years
caught_abort(o) ==
    IF o.phase = "baseline"
      THEN nextYear([o EXCEPT !.baselineFetchFailed = TRUE,
                              !.threw = @ \cup {curYear(o)}, !.failures = @ + 1])
      ELSE [o EXCEPT !.threw = @ \cup {curYear(o)}, !.failures = @ + 1,
                     !.pc = "update", !.rows = <<>>, !.i = 0]

\* the catch blocks around collectYear(year)
caught(o) ==
    nextYear([o EXCEPT
        !.baselineFetchFailed = IF o.phase = "baseline" THEN TRUE ELSE @,
        !.threw = @ \cup {curYear(o)},
        !.failures = @ + 1])

Returns(o, result) ==
    /\ ob' = [o EXCEPT !.pc = "done", !.outcome = "return", !.result = result]
    /\ processed' = IF result THEN processed + 1 ELSE processed

\* an exception leaves upsertUser; syncUsers logs it
Throws(o) ==
    /\ ob' = [o EXCEPT !.pc = "done", !.outcome = "throw", !.failures = @ + 1]
    /\ UNCHANGED processed

CanFail == ob.failures < MaxFailures

\* syncUsers: upsertUser(user, band.tier) is called for the next candidate
UpsertUserStart(u, tier) ==
    /\ ob.pc \in {"idle", "done"}
    /\ runs < MaxRuns
    /\ runs' = runs + 1
    /\ ob' = [IdleOb EXCEPT !.user = u, !.tier = tier, !.pc = "getUser",
                             !.hadRow = sampledUser[u].present,
                             !.last = IF ob.user = "none" THEN NoRun
                                      ELSE RunSummary(ob, sampledUser[ob.user])]
    /\ UNCHANGED <<nonObVars, upstream, sampledUser, metrics, processed>>

GetUserFails ==
    /\ ob.pc = "getUser"
    /\ CanFail
    /\ Returns([ob EXCEPT !.failures = @ + 1], FALSE)
    /\ UNCHANGED <<nonObVars, upstream, sampledUser, metrics, runs>>

\* getUser resolved: orgs and obvious bots are skipped
GetUserOk ==
    /\ ob.pc = "getUser"
    /\ IF skipsProfile(upstream[ob.user].type, ob.user)
         THEN Returns(ob, FALSE)
         ELSE ob' = [ob EXCEPT !.pc = "upsert"] /\ UNCHANGED processed
    /\ UNCHANGED <<nonObVars, upstream, sampledUser, metrics, runs>>

\* prisma.sampledUser.upsert
SampledUserUpsert ==
    /\ ob.pc = "upsert"
    /\ sampledUser' = [sampledUser EXCEPT ![ob.user] =
          IF @.present THEN [@ EXCEPT !.tier = ob.tier]
          ELSE [present |-> TRUE, tier |-> ob.tier, totalContributions |-> 0,
                baselineContributions |-> 0]]
    /\ ob' = [ob EXCEPT !.pc = "fetch", !.phase = "baseline", !.idx = 1]
    /\ UNCHANGED <<nonObVars, upstream, metrics, processed, runs>>

SampledUserUpsertFails ==
    /\ ob.pc = "upsert"
    /\ CanFail
    /\ Throws(ob)
    /\ UNCHANGED <<nonObVars, upstream, sampledUser, metrics, runs>>

\* collectYear: getUserContributions resolved, the rows and totals are built
FetchYearOk ==
    /\ ob.pc = "fetch"
    /\ LET year == curYear(ob)
           rows == rowsOf(year, upstream[ob.user].calendar[year], 1)
           o == [ob EXCEPT
                    !.attempted = @ \cup {year},
                    !.totalContributions = @ + countOf(rows),
                    !.baselineContributions =
                        IF year \in baselineYears THEN @ + countOf(rows) ELSE @]
       IN ob' = IF rows = <<>> THEN nextYear(o)
                ELSE [o EXCEPT !.pc = "write", !.rows = rows, !.i = 0]
    /\ UNCHANGED <<nonObVars, upstream, sampledUser, metrics, processed, runs>>

FetchYearFails ==
    /\ ob.pc = "fetch"
    /\ CanFail
    /\ ob' = caught([ob EXCEPT !.attempted = @ \cup {curYear(ob)}])
    /\ UNCHANGED <<nonObVars, upstream, sampledUser, metrics, processed, runs>>

\* between two syncs GitHub's calendar of the user loses the contributions
\* of a day (a repository deleted or made private): the day now counts 0
UpstreamDayZeroed(u, year, d) ==
    /\ ob.pc = "done" /\ ob.user = u /\ ob.result
    /\ runs < MaxRuns
    /\ upstream[u].calendar[year][d] > 0
    /\ upstream' = [upstream EXCEPT ![u].calendar[year][d] = 0]
    /\ UNCHANGED <<nonObVars, sampledUser, metrics, ob, processed, runs>>

\* collectYear: one chunk of at most chunkSize rows is written
WriteChunkOk ==
    /\ ob.pc = "write"
    /\ LET chunk == SubSeq(ob.rows, ob.i + 1, Min(ob.i + chunkSize, Len(ob.rows)))
           o == [ob EXCEPT !.i = @ + chunkSize, !.wrote = @ + Len(chunk)]
       IN /\ metrics' = upsertUserContributionMetricsBatch(metrics, ob.user, chunk)
          /\ ob' = IF o.i < Len(o.rows) THEN o ELSE nextYear(o)
    /\ UNCHANGED <<nonObVars, upstream, sampledUser, processed, runs>>

WriteChunkFails ==
    /\ ob.pc = "write"
    /\ CanFail
    /\ ob' = caught(ob)
    /\ UNCHANGED <<nonObVars, upstream, sampledUser, metrics, processed, runs>>

\* the baseline gate: delete the user (and, by cascade, the rows) or go on
Gate ==
    /\ ob.pc = "gate"
    /\ IF gateRejects(ob.baselineFetchFailed, ob.baselineContributions)
         THEN /\ sampledUser' = [sampledUser EXCEPT ![ob.user] = NoUser]
              /\ metrics' = deleteCascade(metrics, ob.user)
              /\ Returns([ob EXCEPT !.reachedGate = TRUE], FALSE)
         ELSE /\ ob' = [ob EXCEPT !.reachedGate = TRUE, !.passed = TRUE,
                                  !.pc = "fetch", !.phase = "post", !.idx = 1]
              /\ UNCHANGED <<sampledUser, metrics, processed>>
    /\ UNCHANGED <<nonObVars, upstream, runs>>

\* the gate rejects and prisma.sampledUser.delete throws
GateDeleteFails ==
    /\ ob.pc = "gate"
    /\ gateRejects(ob.baselineFetchFailed, ob.baselineContributions)
    /\ CanFail
    /\ Throws([ob EXCEPT !.reachedGate = TRUE])
    /\ UNCHANGED <<nonObVars, upstream, sampledUser, metrics, runs>>

\* prisma.sampledUser.update of the two totals, then return true
UpdateTotals ==
    /\ ob.pc = "update"
    /\ sampledUser' = [sampledUser EXCEPT ![ob.user] =
          updateTotals(@, ob.totalContributions, ob.baselineContributions)]
    /\ Returns(ob, TRUE)
    /\ UNCHANGED <<nonObVars, upstream, metrics, runs>>

UpdateTotalsFails ==
    /\ ob.pc = "update"
    /\ CanFail
    /\ Throws(ob)
    /\ UNCHANGED <<nonObVars, upstream, sampledUser, metrics, runs>>

(***************************************************************************)
(* part_001 (GET /api/metrics) and findings/route.ts: the reported rates.  *)
(* A rate is the exact fraction <<numerator, denominator>>.                *)
(***************************************************************************)
FracZero == <<0, 1>>
FracOne == <<1, 1>>
RECURSIVE GCD(_, _)
GCD(a, b) == IF b = 0 THEN a ELSE GCD(b, a % b)
\* the two fractions brought to their least common denominator
FracAdd(a, b) ==
    LET g == GCD(a[2], b[2])
    IN <<a[1] * (b[2] \div g) + b[1] * (a[2] \div g), (a[2] \div g) * b[2]>>
FracSub(a, b) ==
    LET g == GCD(a[2], b[2])
    IN <<a[1] * (b[2] \div g) - b[1] * (a[2] \div g), (a[2] \div g) * b[2]>>
FracMul(a, b) == <<a[1] * b[1], a[2] * b[2]>>
FracEq(a, b) ==
    LET g == GCD(a[2], b[2])
    IN a[1] * (b[2] \div g) = b[1] * (a[2] \div g)
FracLeq(a, b) ==
    LET g == GCD(a[2], b[2])
    IN a[1] * (b[2] \div g) <= b[1] * (a[2] \div g)

\* daysInMonthFromYm: new Date(Date.UTC(y, m, 0)).getUTCDate()
daysInMonthFromYm(ym) ==
    LET y == ym[1]
        m == ym[2]
        leap == (y % 4 = 0 /\ y % 100 # 0) \/ y % 400 = 0
    IN IF m = 2 THEN (IF leap THEN 29 ELSE 28)
       ELSE IF m \in {4, 6, 9, 11} THEN 30 ELSE 31

\* monthRange: the months ymStart..ymEnd, none when ymEnd is before ymStart
RECURSIVE monthRange(_, _)
monthRange(ymStart, ymEnd) ==
    IF ymStart[1] < ymEnd[1] \/ (ymStart[1] = ymEnd[1] /\ ymStart[2] <= ymEnd[2])
    THEN <<ymStart>> \o monthRange(IF ymStart[2] = 12 THEN <<ymStart[1] + 1, 1>>
                                   ELSE <<ymStart[1], ymStart[2] + 1>>, ymEnd)
    ELSE <<>>

RECURSIVE sumDays(_)
sumDays(months) ==
    IF months = <<>> THEN 0 ELSE daysInMonthFromYm(Head(months)) + sumDays(Tail(months))

\* ymToUtcBounds: first instant of ymStart, last instant of ymEnd, days between
ymToUtcBounds(ymStart, ymEnd) ==
    [start |-> <<ymStart[1], ymStart[2], 1>>,
     end |-> <<ymEnd[1], ymEnd[2], daysInMonthFromYm(ymEnd)>>,
     days |-> sumDays(monthRange(ymStart, ymEnd))]

\* the month "now" is in, taken for the last full one
getLastFullMonthYm_current(nowYm) == nowYm

\* getLastFullMonthYm(now)
getLastFullMonthYm(nowYm) ==
    IF nowYm[2] = 1 THEN <<nowYm[1] - 1, 12>> ELSE <<nowYm[1], nowYm[2] - 1>>

ymFromDateUtc(date) == <<date[1], date[2]>>

\* new Date(text) of a text that is no date
InvalidDate == <<0, 0, 0>>
isValidDate(date) == date # InvalidDate

\* date >= startMs AND date <= endMs, on dates <<year, month, day>>
DateLeq(a, b) ==
    \/ a[1] < b[1]
    \/ a[1] = b[1] /\ a[2] < b[2]
    \/ a[1] = b[1] /\ a[2] = b[2] /\ a[3] <= b[3]
inRange(rows, start, end) ==
    {r \in rows : DateLeq(start, r.date) /\ DateLeq(r.date, end)}

\* SUM(contributionCount)
RECURSIVE sumCounts(_)
sumCounts(rows) ==
    IF rows = {} THEN 0
    ELSE LET r == CHOOSE x \in rows : TRUE
         IN r.contributionCount + sumCounts(rows \ {r})

\* the cohort and its strata
Users == {"a", "b", "c", "d", "e"}
CohortTier == [u \in Users |-> IF u = "e" THEN "top" ELSE "casual"]

\* the count taken over the users that have rows
userCount_active(cohort) ==
    Cardinality({u \in cohort : \E r \in report.rows : r.userId = u})

\* prisma.sampledUser.count()
userCount(cohort) == Cardinality(cohort)

\* SELECT tier, COUNT(*) FROM SampledUser GROUP BY tier
tierCounts(cohort) ==
    [t \in {CohortTier[u] : u \in cohort} |->
        Cardinality({u \in cohort : CohortTier[u] = t})]

\* the rows of month ym selected by the range
monthRows(rows, start, end, ym) ==
    {r \in inRange(rows, start, end) : ymFromDateUtc(r.date) = ym}

\* GROUP BY ym, userId, tier: one total per user that has a row in the month
userMonthTotals(rows, start, end, ym) ==
    LET sel == monthRows(rows, start, end, ym)
    IN {[userId |-> u, tier |-> CohortTier[u],
         total |-> sumCounts({r \in sel : r.userId = u})] : u \in {r.userId : r \in sel}}

\* the per-user values total / days of the month, in the order the rows came
RECURSIVE perUserValues(_, _)
perUserValues(totals, days) ==
    IF totals = {} THEN <<>>
    ELSE LET row == CHOOSE x \in totals : TRUE
         IN <<IF days > 0 THEN <<row.total, days>> ELSE FracZero>>
            \o perUserValues(totals \ {row}, days)

\* activeValues.slice().sort((a, b) => a - b)
RECURSIVE sortAsc(_)
sortAsc(values) ==
    IF values = <<>> THEN <<>>
    ELSE LET rest == sortAsc(Tail(values))
             v == Head(values)
             below == SelectSeq(rest, LAMBDA x : ~FracLeq(v, x))
             above == SelectSeq(rest, LAMBDA x : FracLeq(v, x))
         IN below \o <<v>> \o above

\* percentile(sorted, p), p given as a fraction
percentile(sorted, p) ==
    IF Len(sorted) = 0 THEN FracZero
    ELSE LET clamped == IF FracLeq(p, FracZero) THEN FracZero
                        ELSE IF FracLeq(FracOne, p) THEN FracOne ELSE p
             k == FracMul(<<Len(sorted) - 1, 1>>, clamped)
             f == k[1] \div k[2]
             c == Min(Len(sorted) - 1, f + 1)
             d == FracSub(k, <<f, 1>>)
         IN IF f = c THEN sorted[f + 1]
            ELSE FracAdd(FracMul(sorted[f + 1], FracSub(FracOne, d)),
                         FracMul(sorted[c + 1], d))

\* the percentiles taken over the active values alone
computeQuantiles_active(activeValues, population) ==
    LET sorted == sortAsc(activeValues)
    IN [p25 |-> percentile(sorted, <<1, 4>>),
        p50 |-> percentile(sorted, <<1, 2>>),
        p75 |-> percentile(sorted, <<3, 4>>)]

\* computeQuantiles: zeros for the users without rows, then the sorted values
computeQuantiles(activeValues, population) ==
    LET missing == Max(0, population - Len(activeValues))
        sorted == sortAsc(activeValues)
        padded == IF missing > 0 THEN [n \in 1..missing |-> FracZero] \o sorted
                  ELSE sorted
    IN [p25 |-> percentile(padded, <<1, 4>>),
        p50 |-> percentile(padded, <<1, 2>>),
        p75 |-> percentile(padded, <<3, 4>>)]

\* users > 0 && days > 0 ? total / (users * days) : 0
perUserPerDay(total, users, days) ==
    IF users > 0 /\ days > 0 THEN <<total, users * days>> ELSE FracZero

\* userMonthlyContributions: the entry of month ym
monthEntry(cohort, rows, start, end, ym) ==
    LET days == daysInMonthFromYm(ym)
        sel == monthRows(rows, start, end, ym)
        totals == userMonthTotals(rows, start, end, ym)
        counts == tierCounts(cohort)
    IN [ym |-> ym,
        value |-> perUserPerDay(sumCounts(sel), userCount(cohort), days),
        byTier |-> [t \in DOMAIN counts |->
            perUserPerDay(sumCounts({r \in sel : CohortTier[r.userId] = t}),
                          counts[t], days)],
        quantiles |-> computeQuantiles(perUserValues(totals, days), userCount(cohort)),
        byTierQuantiles |-> [t \in DOMAIN counts |->
            computeQuantiles(perUserValues({x \in totals : x.tier = t}, days),
                             counts[t])]]

\* mkPeriodStats, of the rows between the bounds
mkPeriodStats(cohort, rows, bounds) ==
    LET totalContributions == sumCounts(inRange(rows, bounds.start, bounds.end))
        denom == IF userCount(cohort) > 0 THEN userCount(cohort) * bounds.days ELSE 0
    IN [start |-> bounds.start, end |-> bounds.end, days |-> bounds.days,
        totalContributions |-> totalContributions,
        contributionsPerUserPerDay |->
            IF denom > 0 THEN <<totalContributions, denom>> ELSE FracZero]

\* the stores the reports are taken from: rows of (date, userId, count)
Row(u, y, m, d, n) == [userId |-> u, date |-> <<y, m, d>>, contributionCount |-> n]
Stores ==
    { {},
      {Row("a", 2020, 4, 5, 3), Row("a", 2020, 4, 12, 7)},
      {Row("a", 2020, 4, 5, 3), Row("a", 2020, 4, 12, 7), Row("b", 2020, 4, 1, 4),
       Row("b", 2020, 2, 29, 2), Row("c", 2020, 3, 10, 9), Row("e", 2020, 4, 2, 30),
       Row("a", 2021, 6, 1, 5), Row("b", 2022, 1, 15, 6)},
      {Row("a", 2020, 4, 9, 1), Row("a", 2020, 4, 10, 2), Row("d", 2020, 4, 30, 8),
       Row("c", 2020, 4, 30, 8), Row("e", 2022, 2, 1, 12), Row("e", 2023, 1, 3, 5)} }

\* startDate and endDate of the requests, and the months "now" is in
MetricsRanges ==
    { [start |-> <<2020, 2, 1>>, end |-> <<2020, 4, 30>>],
      [start |-> <<2020, 4, 10>>, end |-> <<2020, 4, 30>>],
      [start |-> <<2020, 4, 30>>, end |-> <<2020, 2, 1>>],
      [start |-> InvalidDate, end |-> <<2020, 4, 30>>],
      [start |-> <<2020, 2, 1>>, end |-> InvalidDate] }
NowMonths == {<<2022, 3>>, <<2022, 2>>, <<2023, 1>>}

months(r) == monthRange(ymFromDateUtc(r.start), ymFromDateUtc(r.end))
hasUserData(r) == inRange(r.rows, r.start, r.end) # {}
\* commit, pull-request or issue rows with start <= date <= end were found
hasRepoData(r) == r.repoData /\ DateLeq(r.start, r.end)

\* GET /api/metrics: the queries are made
MetricsGet(range) ==
    /\ report.pc = "idle"
    /\ report' = [report EXCEPT !.pc = "queried", !.endpoint = "metrics",
                                !.start = range.start, !.end = range.end]
    /\ UNCHANGED nonReportVars

\* no user rows and no repository rows: the empty summary is answered
MetricsEmpty ==
    /\ report.pc = "queried"
    /\ isValidDate(report.start) /\ isValidDate(report.end)
    /\ ~hasUserData(report) /\ ~hasRepoData(report)
    /\ report' = [report EXCEPT !.pc = "responded", !.empty = TRUE, !.status = 200]
    /\ UNCHANGED nonReportVars

\* a query is given an Invalid Date and throws: the catch answers 500
MetricsThrows ==
    /\ report.pc = "queried"
    /\ ~isValidDate(report.start) \/ ~isValidDate(report.end)
    /\ report' = [report EXCEPT !.pc = "responded", !.status = 500,
                                !.error = "Failed to fetch metrics"]
    /\ UNCHANGED nonReportVars

\* months.map: the entry of the next month
MetricsMonth ==
    /\ report.pc = "queried"
    /\ isValidDate(report.start) /\ isValidDate(report.end)
    /\ hasUserData(report) \/ hasRepoData(report)
    /\ LET k == Len(report.entries) + 1
       IN /\ k <= Len(months(report))
          /\ report' = [report EXCEPT
                !.entries = Append(@, monthEntry(report.cohort, report.rows, report.start,
                                                  report.end, months(report)[k])),
                !.pc = IF k = Len(months(report)) THEN "responded" ELSE "queried",
                !.status = IF k = Len(months(report)) THEN 200 ELSE 0]
    /\ UNCHANGED nonReportVars

\* a row for every user of the cohort, with or without stored rows
perUserTotals_padded(cohort, rows, pre, post) ==
    {[userId |-> u,
      preTotal |-> sumCounts({r \in inRange(rows, pre.start, pre.end) : r.userId = u}),
      postTotal |-> sumCounts({r \in inRange(rows, post.start, post.end) : r.userId = u})]
        : u \in cohort}

\* perUserRaw: GROUP BY userId over the rows between pre.start and post.end
perUserTotals(cohort, rows, pre, post) ==
    LET window == inRange(rows, pre.start, post.end)
    IN {[userId |-> u,
         preTotal |-> sumCounts({r \in inRange(window, pre.start, pre.end) : r.userId = u}),
         postTotal |-> sumCounts({r \in inRange(window, post.start, post.end) : r.userId = u})]
           : u \in {r.userId : r \in window}}

\* deltas.push(postAvg - preAvg), in the order the rows came
RECURSIVE deltasOf(_, _, _)
deltasOf(totals, pre, post) ==
    IF totals = {} THEN <<>>
    ELSE LET row == CHOOSE x \in totals : TRUE
             preAvg == IF pre.days > 0 THEN <<row.preTotal, pre.days>> ELSE FracZero
             postAvg == IF post.days > 0 THEN <<row.postTotal, post.days>> ELSE FracZero
         IN <<FracSub(postAvg, preAvg)>> \o deltasOf(totals \ {row}, pre, post)

\* deltas.reduce((sum, v) => sum + v, 0)
RECURSIVE sumFracs(_)
sumFracs(values) ==
    IF values = <<>> THEN FracZero ELSE FracAdd(Head(values), sumFracs(Tail(values)))

\* the delta distribution: sorted deltas, n, mean and pctPositive
distributionOf(totals, pre, post) ==
    LET deltas == sortAsc(deltasOf(totals, pre, post))
        n == Len(deltas)
    IN [n |-> n,
        deltas |-> deltas,
        mean |-> IF n > 0 THEN FracMul(sumFracs(deltas), <<1, n>>) ELSE FracZero,
        pctPositive |->
            IF n > 0 THEN <<Len(SelectSeq(deltas, LAMBDA v : ~FracLeq(v, FracZero))), n>>
            ELSE FracZero]

\* GET /api/findings: the pre and post period statistics
FindingsGet(nowYm) ==
    /\ report.pc = "idle"
    /\ LET pre == ymToUtcBounds(<<2020, 1>>, <<2021, 12>>)
           post == ymToUtcBounds(<<2022, 1>>, getLastFullMonthYm(nowYm))
       IN report' = [report EXCEPT
             !.pc = "responded", !.endpoint = "findings", !.nowYm = nowYm, !.status = 200,
             !.periods = <<mkPeriodStats(report.cohort, report.rows, pre),
                           mkPeriodStats(report.cohort, report.rows, post)>>,
             !.distribution =
                 distributionOf(perUserTotals(report.cohort, report.rows, pre, post),
                                pre, post)]
    /\ UNCHANGED nonReportVars

(***************************************************************************)
(* route.ts: processRepoStats, the weekly commit rows of one repository    *)
(***************************************************************************)
MaxStatsRuns == 3

\* a week of a contributor: w the week's timestamp (0: none), a, d, c
Week(w, a, d, c) == [w |-> w, a |-> a, d |-> d, c |-> c]
Contributor(author, weeks) == [author |-> author, weeks |-> weeks]

\* what getContributorStats answers
StatsChoices ==
    { <<Contributor(TRUE, <<Week(1, 10, 2, 3), Week(2, 0, 0, 0)>>),
        Contributor(TRUE, <<Week(1, 5, 1, 2), Week(3, 1, 1, 1)>>)>>,
      <<Contributor(FALSE, <<Week(1, 7, 7, 9)>>),
        Contributor(TRUE, <<Week(1, 4, 0, 1), Week(0, 2, 2, 2)>>)>>,
      <<Contributor(TRUE, <<Week(3, 6, 3, 4)>>)>> }

NoTotals == [commits |-> 0, added |-> 0, removed |-> 0]

IdleRepoStats ==
    [pc |-> "idle", runs |-> 0, weekMap |-> <<>>, queue |-> <<>>,
     last |-> [week |-> 0, existed |-> FALSE, before |-> NoTotals, totals |-> NoTotals],
     unchanged |-> TRUE]

\* the weeks of the contributors that count: an author, a timestamp, commits
RECURSIVE countedWeeks(_)
countedWeeks(stats) ==
    IF stats = <<>> THEN <<>>
    ELSE (IF Head(stats).author
          THEN SelectSeq(Head(stats).weeks, LAMBDA week : week.w # 0 /\ week.c # 0)
          ELSE <<>>) \o countedWeeks(Tail(stats))

RECURSIVE sumField(_, _, _)
sumField(weeks, key, field) ==
    IF weeks = <<>> THEN 0
    ELSE (IF Head(weeks).w = key THEN Head(weeks)[field] ELSE 0)
         + sumField(Tail(weeks), key, field)

\* weekMap: per week timestamp the sums over the contributors
weekMapOf(stats) ==
    LET weeks == countedWeeks(stats)
    IN [key \in {weeks[i].w : i \in DOMAIN weeks} |->
           [commits |-> sumField(weeks, key, "c"),
            added |-> sumField(weeks, key, "a"),
            removed |-> sumField(weeks, key, "d")]]

\* Array.from(weekMap.entries()).sort((a, b) => a[0] - b[0])
RECURSIVE sortedWeeks(_)
sortedWeeks(keys) ==
    IF keys = {} THEN <<>>
    ELSE LET least == CHOOSE k \in keys : \A other \in keys : k <= other
         IN <<least>> \o sortedWeeks(keys \ {least})

\* prisma.commitMetrics.findFirst({ where: { date, repoId, language, userId: null } })
existingRow(rows, week) == {r \in rows : r.date = week}

\* the counts of the fetch added to the stored ones
writeWeek_increment(rows, week, totals) ==
    IF existingRow(rows, week) # {}
    THEN {IF r.date = week
          THEN [r EXCEPT !.commitCount = @ + totals.commits,
                         !.linesAdded = @ + totals.added,
                         !.linesRemoved = @ + totals.removed]
          ELSE r : r \in rows}
    ELSE rows \cup {[date |-> week, commitCount |-> totals.commits,
                     linesAdded |-> totals.added, linesRemoved |-> totals.removed]}

\* existing ? commitMetrics.update(data: totals) : commitMetrics.create(data: totals)
writeWeek(rows, week, totals) ==
    IF existingRow(rows, week) # {}
    THEN {IF r.date = week
          THEN [r EXCEPT !.commitCount = totals.commits,
                         !.linesAdded = totals.added,
                         !.linesRemoved = totals.removed]
          ELSE r : r \in rows}
    ELSE rows \cup {[date |-> week, commitCount |-> totals.commits,
                     linesAdded |-> totals.added, linesRemoved |-> totals.removed]}

storedTotals(rows, week) ==
    IF existingRow(rows, week) = {} THEN NoTotals
    ELSE LET r == CHOOSE x \in existingRow(rows, week) : TRUE
         IN [commits |-> r.commitCount, added |-> r.linesAdded, removed |-> r.linesRemoved]

\* processRepoStats(repoGithubId, stats) is called by a sync; the repository
\* is found and the weekMap is built
ProcessRepoStatsStart(stats) ==
    /\ repoStats.pc \in {"idle", "threw"}
    /\ repoStats.runs < MaxStatsRuns
    /\ LET map == weekMapOf(stats)
       IN repoStats' = [repoStats EXCEPT
             !.pc = "weeks", !.runs = @ + 1, !.weekMap = map,
             !.queue = sortedWeeks(DOMAIN map), !.unchanged = TRUE]
    /\ UNCHANGED <<nonRepoVars, commitMetrics>>

\* prisma.sampledRepo.findUnique finds no repository: nothing is written
ProcessRepoStatsNoRepo ==
    /\ repoStats.pc \in {"idle", "threw"}
    /\ repoStats.runs < MaxStatsRuns
    /\ repoStats' = [repoStats EXCEPT !.pc = "idle", !.runs = @ + 1,
                                      !.weekMap = <<>>, !.queue = <<>>]
    /\ UNCHANGED <<nonRepoVars, commitMetrics>>

\* one round of the loop over sortedWeeks: findFirst, then update or create
WriteWeek ==
    /\ repoStats.pc = "weeks"
    /\ repoStats.queue # <<>>
    /\ LET week == Head(repoStats.queue)
           totals == repoStats.weekMap[week]
       IN /\ commitMetrics' = writeWeek(commitMetrics, week, totals)
          /\ repoStats' = [repoStats EXCEPT
                !.queue = Tail(@),
                !.last = [week |-> week,
                          existed |-> existingRow(commitMetrics, week) # {},
                          before |-> storedTotals(commitMetrics, week),
                          totals |-> totals],
                !.unchanged = @ /\ commitMetrics' = commitMetrics]
    /\ UNCHANGED nonRepoVars

\* the store throws in a round: processRepoStats throws, the rows written stay
WriteWeekFails ==
    /\ repoStats.pc = "weeks"
    /\ repoStats.queue # <<>>
    /\ repoStats' = [repoStats EXCEPT !.pc = "threw"]
    /\ UNCHANGED <<nonRepoVars, commitMetrics>>

\* the loop is over: processRepoStats returns
ProcessRepoStatsReturns ==
    /\ repoStats.pc = "weeks"
    /\ repoStats.queue = <<>>
    /\ repoStats' = [repoStats EXCEPT !.pc = "idle"]
    /\ UNCHANGED <<nonRepoVars, commitMetrics>>

(***************************************************************************)
(* route.ts: the parameters of a sync, as POST resolves and records them   *)
(* and as syncUsers and syncRepos use them.  Numbers are integers; NaN is  *)
(* what Number() makes of a text that is no number, Absent a query         *)
(* parameter or environment variable that is not given (null).             *)
(***************************************************************************)
NaN == -999999
Absent == -999998

isFinite(n) == n # NaN /\ n # Absent

\* clampInt(n, min, max)
clampInt(n, min, max) == IF ~isFinite(n) THEN min ELSE Min(max, Max(min, n))

TRACKED_LANGUAGES ==
    <<"TypeScript", "JavaScript", "Python", "Go", "Rust", "Java", "C++", "C#", "PHP", "Ruby">>

\* the *_ENV constants: process.env.X ? Number(process.env.X) : NaN, then the default
envOr(value, default) == IF isFinite(value) THEN value ELSE default
EnvConstants(env) ==
    [USERS_PER_BAND_ENV |-> envOr(env.USERS_PER_BAND, Absent),
     USER_SEARCH_PER_PAGE_ENV |-> 100,
     USER_SEARCH_PAGES_PER_ORDER_ENV |-> 2,
     REPO_LANGUAGE_COUNT_ENV |-> 5,
     REPOS_PER_LANGUAGE_ENV |-> 10,
     REPO_MIN_STARS_ENV |-> envOr(env.REPO_MIN_STARS, 5000),
     REPO_PR_PAGES_ENV |-> 3,
     REPO_ISSUE_PAGES_ENV |-> 3,
     DEFAULT_SAMPLING_SEED |-> 42]

\* param ? Number(param) : fallback
paramOr(param, fallback) == IF param # Absent THEN param ELSE fallback

\* resolveUserBands: the targets of the ten bands
resolveUserBands(usersPerBandOverride, consts) ==
    [b \in DOMAIN USER_BANDS |->
        IF usersPerBandOverride # Absent THEN usersPerBandOverride
        ELSE IF consts.USERS_PER_BAND_ENV # Absent THEN consts.USERS_PER_BAND_ENV
        ELSE USER_BANDS[b].target]

\* POST: the values resolved from the query and the environment
resolveParams(type, q, consts) ==
    LET seedRaw == paramOr(q.seed, consts.DEFAULT_SAMPLING_SEED)
        usersPerBandRaw == paramOr(q.usersPerBand, NaN)
        usersPerBandOverride == IF isFinite(usersPerBandRaw) THEN usersPerBandRaw ELSE Absent
        repoMinStarsRaw == paramOr(q.repoMinStars, consts.REPO_MIN_STARS_ENV)
        users == type \in {"users", "all"}
    IN [shouldSyncUsers |-> users,
        shouldSyncRepos |-> type \in {"repos", "all"},
        samplingSeed |-> IF isFinite(seedRaw) THEN seedRaw ELSE consts.DEFAULT_SAMPLING_SEED,
        usersPerBandOverride |-> usersPerBandOverride,
        userPerPage |-> clampInt(paramOr(q.userPerPage, consts.USER_SEARCH_PER_PAGE_ENV), 1, 100),
        userPagesPerOrder |->
            clampInt(paramOr(q.userPagesPerOrder, consts.USER_SEARCH_PAGES_PER_ORDER_ENV), 1, 10),
        repoLanguageCount |->
            clampInt(paramOr(q.repoLanguageCount, consts.REPO_LANGUAGE_COUNT_ENV),
                     1, Len(TRACKED_LANGUAGES)),
        reposPerLanguage |->
            clampInt(paramOr(q.reposPerLanguage, consts.REPOS_PER_LANGUAGE_ENV), 1, 1000),
        repoMinStars |-> IF isFinite(repoMinStarsRaw) THEN Max(0, repoMinStarsRaw)
                         ELSE consts.REPO_MIN_STARS_ENV,
        repoPrPages |-> clampInt(paramOr(q.repoPRPages, consts.REPO_PR_PAGES_ENV), 0, 50),
        repoIssuePages |-> clampInt(paramOr(q.repoIssuePages, consts.REPO_ISSUE_PAGES_ENV), 0, 50),
        effectiveBands |-> IF users THEN resolveUserBands(usersPerBandOverride, consts)
                           ELSE [b \in DOMAIN USER_BANDS |-> USER_BANDS[b].target]]

NoUserParams == [bands |-> <<>>, perPage |-> Absent, pagesPerOrder |-> Absent, seed |-> Absent]
NoRepoParams ==
    [languages |-> <<>>, reposPerLanguage |-> Absent, minStars |-> Absent,
     prPages |-> Absent, issuePages |-> Absent]

\* samplingParams and samplingSeed of the SyncJob row: the users part
recordedUsers(r) ==
    IF r.shouldSyncUsers
    THEN [bands |-> r.effectiveBands, perPage |-> r.userPerPage,
          pagesPerOrder |-> r.userPagesPerOrder, seed |-> r.samplingSeed]
    ELSE NoUserParams

\* samplingParams of the SyncJob row: the repos part
recordedRepos(r) ==
    IF r.shouldSyncRepos
    THEN [languages |-> SubSeq(TRACKED_LANGUAGES, 1, r.repoLanguageCount),
          reposPerLanguage |-> r.reposPerLanguage, minStars |-> r.repoMinStars,
          prPages |-> r.repoPrPages, issuePages |-> r.repoIssuePages]
    ELSE NoRepoParams

\* syncUsers(samplingSeed, effectiveBands, { perPage, pagesPerOrder }): what it works with
syncUsersParams(baseSeed, bands, options) ==
    [bands |-> bands,
     perPage |-> clampInt(options.perPage, 1, 100),
     pagesPerOrder |-> clampInt(options.pagesPerOrder, 1, 10),
     seed |-> baseSeed]

\* syncRepos(options): what it works with
syncReposParams(options) ==
    [languages |-> SubSeq(TRACKED_LANGUAGES, 1,
                          clampInt(options.languageCount, 1, Len(TRACKED_LANGUAGES))),
     reposPerLanguage |-> clampInt(options.reposPerLanguage, 1, 1000),
     minStars |-> IF isFinite(options.minStars) THEN Max(0, options.minStars) ELSE 5000,
     prPages |-> clampInt(options.prPages, 0, 50),
     issuePages |-> clampInt(options.issuePages, 0, 50)]

\* the environments and the query strings of the model
Environments ==
    [USERS_PER_BAND : {Absent, 3}, REPO_MIN_STARS : {Absent, 100, -5}]
Queries ==
    [seed : {Absent, 7}, usersPerBand : {Absent, 2}, userPerPage : {Absent, 250, NaN},
     userPagesPerOrder : {Absent, 99}, repoLanguageCount : {Absent, 2},
     reposPerLanguage : {Absent, 5000}, repoMinStars : {Absent, NaN, -3, 10},
     repoPRPages : {Absent, -1}, repoIssuePages : {Absent}]

IdleParams ==
    [pc |-> "idle", env |-> [USERS_PER_BAND |-> Absent, REPO_MIN_STARS |-> Absent],
     resolved |-> [shouldSyncUsers |-> FALSE, shouldSyncRepos |-> FALSE],
     recordedUsers |-> NoUserParams, recordedRepos |-> NoRepoParams,
     usedUsers |-> NoUserParams, usedRepos |-> NoRepoParams]

\* POST resolves the parameters and creates the SyncJob row with the snapshot
PostRecords(type, q) ==
    /\ params.pc = "idle"
    /\ LET r == resolveParams(type, q, EnvConstants(params.env))
       IN params' = [params EXCEPT !.pc = "created", !.resolved = r,
                                   !.recordedUsers = recordedUsers(r),
                                   !.recordedRepos = recordedRepos(r)]
    /\ UNCHANGED nonParamVars

\* if (shouldSyncUsers) syncUsers(samplingSeed, effectiveBands, {...})
SyncUsersRuns ==
    /\ params.pc = "created"
    /\ params.resolved.shouldSyncUsers
    /\ LET r == params.resolved
       IN params' = [params EXCEPT
             !.pc = "users",
             !.usedUsers = syncUsersParams(r.samplingSeed, r.effectiveBands,
                               [perPage |-> r.userPerPage,
                                pagesPerOrder |-> r.userPagesPerOrder])]
    /\ UNCHANGED nonParamVars

\* if (shouldSyncRepos) syncRepos({...})
SyncReposRuns ==
    /\ \/ params.pc = "users"
       \/ params.pc = "created" /\ ~params.resolved.shouldSyncUsers
    /\ params.resolved.shouldSyncRepos
    /\ LET r == params.resolved
       IN params' = [params EXCEPT
             !.pc = "repos",
             !.usedRepos = syncReposParams(
                               [languageCount |-> r.repoLanguageCount,
                                reposPerLanguage |-> r.reposPerLanguage,
                                minStars |-> r.repoMinStars,
                                prPages |-> r.repoPrPages,
                                issuePages |-> r.repoIssuePages])]
    /\ UNCHANGED nonParamVars

(***************************************************************************)
(* route.ts upsertRepo: the SampledRepo row of a repository                *)
(***************************************************************************)
MaxRepoUpserts == 3
MaxFlowRuns == 3

\* a repository as the search returns it; full_name is owner/name
RepoPayload(id, owner, name, description, stars, forks, issues) ==
    [id |-> id, full_name |-> <<owner, name>>, name |-> name,
     owner |-> [login |-> owner], description |-> description,
     stargazers_count |-> stars, forks_count |-> forks,
     open_issues_count |-> issues]

\* what upstream may return: two repositories, the first one also after it
\* was renamed and transferred, the second one also under the abandoned
\* name of the first
RepoPayloads ==
    { RepoPayload(101, "o", "a", "d1", 10, 1, 0),
      RepoPayload(101, "p", "a2", "d2", 20, 2, 3),
      RepoPayload(102, "o", "b", "d3", 5, 0, 0),
      RepoPayload(102, "o", "a", "d3", 6, 1, 1) }
StrataLanguages == {"TypeScript", "JavaScript"}

NoPayload == RepoPayload(0, "none", "none", "none", 0, 0, 0)

NoDate == <<0, 0>>
NullAvg == <<0, 0>>

IdleFlow ==
    [pc |-> "idle", upserts |-> 0, repo |-> NoPayload, language |-> "none",
     existed |-> FALSE, runs |-> 0, kind |-> "none", githubId |-> 0,
     list |-> <<>>, queue |-> <<>>, prevKind |-> "none", prevList |-> <<>>,
     before |-> {}, partial |-> FALSE]

rowOfGithubId(table, githubId) == {r \in table : r.githubId = githubId}

\* an upsert that rewrites every column from the payload
upsertRepo_rewrite(table, repo, language, t) ==
    LET fresh(id) ==
          [id |-> id, githubId |-> repo.id, fullName |-> repo.full_name,
           name |-> repo.name, owner |-> repo.owner.login,
           description |-> repo.description, primaryLanguage |-> language,
           stars |-> repo.stargazers_count, forks |-> repo.forks_count,
           openIssues |-> repo.open_issues_count, lastSyncedAt |-> t]
    IN IF rowOfGithubId(table, repo.id) # {}
       THEN {IF r.githubId = repo.id THEN fresh(r.id) ELSE r : r \in table}
       ELSE table \cup {fresh(Cardinality(table) + 1)}

\* prisma.sampledRepo.upsert({ where: { githubId }, create, update })
upsertRepo(table, repo, language, t) ==
    IF rowOfGithubId(table, repo.id) # {}
    THEN {IF r.githubId = repo.id
          THEN [r EXCEPT !.stars = repo.stargazers_count,
                         !.forks = repo.forks_count,
                         !.openIssues = repo.open_issues_count,
                         !.lastSyncedAt = t]
          ELSE r : r \in table}
    ELSE table \cup
           {[id |-> Cardinality(table) + 1, githubId |-> repo.id,
             fullName |-> repo.full_name, name |-> repo.name,
             owner |-> repo.owner.login, description |-> repo.description,
             primaryLanguage |-> language, stars |-> repo.stargazers_count,
             forks |-> repo.forks_count, openIssues |-> repo.open_issues_count,
             lastSyncedAt |-> t]}

\* the create branch meets the unique index on fullName
fullNameTaken(table, repo) ==
    /\ rowOfGithubId(table, repo.id) = {}
    /\ \E r \in table : r.fullName = repo.full_name

FlowIdle == flow.pc \in {"idle", "upserted", "rejected", "returned", "threw"}

\* upsertRepo(repo, language) resolved; new Date() is later on every call
UpsertRepoRow(repo, language) ==
    /\ FlowIdle
    /\ flow.upserts < MaxRepoUpserts
    /\ ~fullNameTaken(sampledRepo, repo)
    /\ sampledRepo' = upsertRepo(sampledRepo, repo, language, flow.upserts + 1)
    /\ flow' = [flow EXCEPT !.pc = "upserted", !.upserts = @ + 1,
                            !.repo = repo, !.language = language,
                            !.existed = rowOfGithubId(sampledRepo, repo.id) # {}]
    /\ UNCHANGED <<nonFlowVars, prMetrics, issueMetrics>>

\* upsertRepo(repo, language) rejected by the unique index on fullName
UpsertRepoRowRejected(repo, language) ==
    /\ FlowIdle
    /\ flow.upserts < MaxRepoUpserts
    /\ fullNameTaken(sampledRepo, repo)
    /\ flow' = [flow EXCEPT !.pc = "rejected", !.upserts = @ + 1,
                            !.repo = repo, !.language = language,
                            !.existed = FALSE]
    /\ UNCHANGED <<nonFlowVars, sampledRepo, prMetrics, issueMetrics>>

(***************************************************************************)
(* route.ts processRepoPRs, processRepoIssues: the day buckets             *)
(***************************************************************************)
\* a timestamp is <<day, hour>>; a pull request or an issue as fetchPaged...
\* hands it on (an issue has no merged_at)
Item(created, closed, merged) ==
    [created_at |-> created, closed_at |-> closed, merged_at |-> merged]

ItemLists ==
    { << Item(<<1, 2>>, <<2, 5>>, <<2, 5>>), Item(<<1, 10>>, NoDate, NoDate),
         Item(<<2, 0>>, <<3, 1>>, NoDate) >>,
      << Item(<<1, 2>>, <<1, 8>>, <<1, 8>>), Item(<<1, 3>>, <<1, 6>>, <<1, 6>>) >> }

\* normalizeToDay(dateStr), as its ISO date
normalizeToDay(dateStr) == dateStr[1]

\* (new Date(b).getTime() - new Date(a).getTime()) / (1000 * 60 * 60)
hoursBetween(a, b) == (b[1] - a[1]) * 24 + (b[2] - a[2])

ZeroPRDay ==
    [opened |-> 0, closed |-> 0, merged |-> 0, mergeHoursTotal |-> 0, mergeCount |-> 0]
ZeroIssueDay ==
    [opened |-> 0, closed |-> 0, resolutionHoursTotal |-> 0, resolutionCount |-> 0]

\* addToDay: dayMap as the list of its entries in insertion order
addToDay(dayMap, dateStr, zero, fn(_)) ==
    IF dateStr = NoDate THEN dayMap
    ELSE LET key == normalizeToDay(dateStr)
             hit == {i \in DOMAIN dayMap : dayMap[i].key = key}
         IN IF hit = {}
            THEN Append(dayMap, [key |-> key, data |-> fn(zero)])
            ELSE [dayMap EXCEPT ![CHOOSE i \in hit : TRUE].data = fn(@)]

\* processRepoPRs: the loop over prs
RECURSIVE prDayMap(_)
prDayMap(prs) ==
    IF prs = <<>> THEN <<>>
    ELSE LET pr == prs[Len(prs)]
             m0 == prDayMap(SubSeq(prs, 1, Len(prs) - 1))
             m1 == addToDay(m0, pr.created_at, ZeroPRDay,
                            LAMBDA e : [e EXCEPT !.opened = @ + 1])
             m2 == addToDay(m1, pr.closed_at, ZeroPRDay,
                            LAMBDA e : [e EXCEPT !.closed = @ + 1])
         IN IF pr.merged_at = NoDate THEN m2
            ELSE addToDay(m2, pr.merged_at, ZeroPRDay,
                    LAMBDA e :
                       IF pr.created_at # NoDate
                       THEN [e EXCEPT !.merged = @ + 1,
                                      !.mergeHoursTotal =
                                          @ + hoursBetween(pr.created_at, pr.merged_at),
                                      !.mergeCount = @ + 1]
                       ELSE [e EXCEPT !.merged = @ + 1])

\* processRepoIssues: the loop over issues
RECURSIVE issueDayMap(_)
issueDayMap(issues) ==
    IF issues = <<>> THEN <<>>
    ELSE LET issue == issues[Len(issues)]
             m0 == issueDayMap(SubSeq(issues, 1, Len(issues) - 1))
             m1 == addToDay(m0, issue.created_at, ZeroIssueDay,
                            LAMBDA e : [e EXCEPT !.opened = @ + 1])
         IN IF issue.closed_at = NoDate THEN m1
            ELSE addToDay(m1, issue.closed_at, ZeroIssueDay,
                    LAMBDA e :
                       IF issue.created_at # NoDate
                       THEN [e EXCEPT !.closed = @ + 1,
                                      !.resolutionHoursTotal =
                                          @ + hoursBetween(issue.created_at, issue.closed_at),
                                      !.resolutionCount = @ + 1]
                       ELSE [e EXCEPT !.closed = @ + 1])

\* count > 0 ? total / count : null, as a fraction in lowest terms
avgOrNull(total, count) ==
    IF count > 0
    THEN LET g == GCD(total, count) IN <<total \div g, count \div g>>
    ELSE NullAvg

dayRows(table, repo, key) ==
    {r \in table : r.date = key /\ r.repoId = repo.id
                    /\ r.language = repo.primaryLanguage}

\* the counts of the run added to the stored ones
writePRDay_accumulate(table, repo, key, data) ==
    LET avg == avgOrNull(data.mergeHoursTotal, data.mergeCount)
        found == dayRows(table, repo, key)
    IN IF found # {}
       THEN LET existing == CHOOSE r \in found : \A q \in found : r.id <= q.id
            IN (table \ {existing}) \cup
                 {[existing EXCEPT !.prsOpened = @ + data.opened,
                                   !.prsClosed = @ + data.closed,
                                   !.prsMerged = @ + data.merged,
                                   !.avgTimeToMergeHrs = avg]}
       ELSE table \cup
              {[id |-> Cardinality(table) + 1, date |-> key, repoId |-> repo.id,
                language |-> repo.primaryLanguage, prsOpened |-> data.opened,
                prsClosed |-> data.closed, prsMerged |-> data.merged,
                avgTimeToMergeHrs |-> avg]}

\* pRMetrics.findFirst, then update by id or create
writePRDay(table, repo, key, data) ==
    LET avg == avgOrNull(data.mergeHoursTotal, data.mergeCount)
        found == dayRows(table, repo, key)
    IN IF found # {}
       THEN LET existing == CHOOSE r \in found : \A q \in found : r.id <= q.id
            IN (table \ {existing}) \cup
                 {[existing EXCEPT !.prsOpened = data.opened,
                                   !.prsClosed = data.closed,
                                   !.prsMerged = data.merged,
                                   !.avgTimeToMergeHrs = avg]}
       ELSE table \cup
              {[id |-> Cardinality(table) + 1, date |-> key, repoId |-> repo.id,
                language |-> repo.primaryLanguage, prsOpened |-> data.opened,
                prsClosed |-> data.closed, prsMerged |-> data.merged,
                avgTimeToMergeHrs |-> avg]}

\* issueMetrics.upsert on date_repoId_language
writeIssueDay(table, repo, key, data) ==
    LET avg == avgOrNull(data.resolutionHoursTotal, data.resolutionCount)
        found == dayRows(table, repo, key)
    IN IF found # {}
       THEN {IF r \in found
             THEN [r EXCEPT !.issuesOpened = data.opened,
                            !.issuesClosed = data.closed,
                            !.avgResolutionHrs = avg]
             ELSE r : r \in table}
       ELSE table \cup
              {[id |-> Cardinality(table) + 1, date |-> key, repoId |-> repo.id,
                language |-> repo.primaryLanguage, issuesOpened |-> data.opened,
                issuesClosed |-> data.closed, avgResolutionHrs |-> avg]}

FlowKinds == {"prs", "issues"}
tableOf(kind) == IF kind = "prs" THEN prMetrics ELSE issueMetrics

\* processRepoPRs / processRepoIssues is called; the repository has a row
ProcessFlowStart(kind, githubId, list) ==
    /\ FlowIdle
    /\ flow.runs < MaxFlowRuns
    /\ rowOfGithubId(sampledRepo, githubId) # {}
    /\ flow' = [flow EXCEPT
          !.pc = "write", !.runs = @ + 1, !.kind = kind, !.githubId = githubId,
          !.list = list,
          !.queue = IF kind = "prs" THEN prDayMap(list) ELSE issueDayMap(list),
          !.prevKind = IF flow.pc = "returned" THEN flow.kind ELSE "none",
          !.prevList = IF flow.pc = "returned" THEN flow.list ELSE <<>>,
          !.before = tableOf(kind), !.partial = FALSE]
    /\ UNCHANGED <<nonFlowVars, sampledRepo, prMetrics, issueMetrics>>

\* if (!repo) return
ProcessFlowNoRepo(kind, githubId, list) ==
    /\ FlowIdle
    /\ flow.runs < MaxFlowRuns
    /\ rowOfGithubId(sampledRepo, githubId) = {}
    /\ flow' = [flow EXCEPT
          !.pc = "idle", !.runs = @ + 1, !.kind = kind, !.githubId = githubId,
          !.list = list, !.queue = <<>>, !.prevKind = "none", !.prevList = <<>>,
          !.before = tableOf(kind), !.partial = FALSE]
    /\ UNCHANGED <<nonFlowVars, sampledRepo, prMetrics, issueMetrics>>

\* one round of the loop over dayMap.entries()
WriteDay ==
    /\ flow.pc = "write"
    /\ flow.queue # <<>>
    /\ LET repo == CHOOSE r \in rowOfGithubId(sampledRepo, flow.githubId) : TRUE
           e == Head(flow.queue)
       IN IF flow.kind = "prs"
          THEN /\ prMetrics' = writePRDay(prMetrics, repo, e.key, e.data)
               /\ UNCHANGED issueMetrics
          ELSE /\ issueMetrics' = writeIssueDay(issueMetrics, repo, e.key, e.data)
               /\ UNCHANGED prMetrics
    /\ flow' = [flow EXCEPT !.queue = Tail(@)]
    /\ UNCHANGED <<nonFlowVars, sampledRepo>>

\* a write of the loop throws: the function rejects, the rest is not written
WriteDayFails ==
    /\ flow.pc = "write"
    /\ flow.queue # <<>>
    /\ flow' = [flow EXCEPT !.pc = "threw", !.partial = TRUE]
    /\ UNCHANGED <<nonFlowVars, sampledRepo, prMetrics, issueMetrics>>

\* the loop is through
ProcessFlowReturns ==
    /\ flow.pc = "write"
    /\ flow.queue = <<>>
    /\ flow' = [flow EXCEPT !.pc = "returned"]
    /\ UNCHANGED <<nonFlowVars, sampledRepo, prMetrics, issueMetrics>>

(***************************************************************************)
(* rate-limiter.ts: several tasks at the gate of the one rateLimiter       *)
(***************************************************************************)
MaxGateCalls == 3
MaxGateTicks == 2

TaskIds == {"t1", "t2"}
GateChannels == {"search", "rest"}
ResetLaterSec == (StartNow \div 1000) + 10
GateTick == 5 * 500

\* the headers of a response: the budget at its buffer in the window that
\* ends soon, or nearly used up, or ample, in the window after it
GateHeaders ==
    { RateHeaders(5, ResetSoonSec, 30), RateHeaders(3, ResetLaterSec, 30),
      RateHeaders(20, ResetLaterSec, 30) }

IdleTask ==
    [pc |-> "idle", channel |-> "none", wakeAt |-> 0, suspended |-> FALSE,
     overtaken |-> FALSE, canAtReturn |-> TRUE]

IdleTasks == [of |-> [t \in TaskIds |-> IdleTask], calls |-> 0, ticks |-> 0]

Sleepers == {t \in TaskIds : tasks.of[t].pc = "sleeping"}

\* a task calls waitIfNeeded(type): it goes on at once or awaits the timer
GateCall(t, type) ==
    /\ tasks.of[t].pc = "idle"
    /\ tasks.calls < MaxGateCalls
    /\ LET ms == waitMs(limits, type, now)
       IN tasks' = [tasks EXCEPT
             !.calls = @ + 1,
             !.of[t] = IF ms > 0
                       THEN [IdleTask EXCEPT !.pc = "sleeping", !.channel = type,
                                             !.wakeAt = now + ms,
                                             !.suspended = TRUE]
                       ELSE [IdleTask EXCEPT !.pc = "request", !.channel = type,
                                             !.canAtReturn =
                                                 canMakeRequest(limits, type, now)]]
    /\ UNCHANGED <<execVars, nonTaskVars>>

\* the timer of a suspended task fires and waitIfNeeded returns: nothing
\* follows the await, the budget is not read again
GateTimer(t) ==
    /\ tasks.of[t].pc = "sleeping"
    /\ now >= tasks.of[t].wakeAt
    /\ tasks' = [tasks EXCEPT
          !.of[t].pc = "request",
          !.of[t].canAtReturn = canMakeRequest(limits, tasks.of[t].channel, now)]
    /\ UNCHANGED <<execVars, nonTaskVars>>

\* the response of a task's request arrives: updateFromHeaders, then the
\* task is through
GateResponse(t, headers) ==
    /\ tasks.of[t].pc = "request"
    /\ limits' = updateFromHeaders(limits, headers, tasks.of[t].channel)
    /\ tasks' = [tasks EXCEPT !.of =
          [u \in TaskIds |->
              IF u = t THEN [tasks.of[u] EXCEPT !.pc = "idle"]
              ELSE IF tasks.of[u].pc = "sleeping"
                      /\ tasks.of[u].channel = tasks.of[t].channel
                   THEN [tasks.of[u] EXCEPT !.overtaken = TRUE]
              ELSE tasks.of[u]]]
    /\ UNCHANGED <<now, ticks, cache, call, prev, calls, config, upstreamErrors,
                   nonTaskVars>>

\* time passes, up to the next timer that is due
GateClock ==
    /\ tasks.ticks < MaxGateTicks
    /\ \A t \in Sleepers : tasks.of[t].wakeAt > now
    /\ LET due == {tasks.of[t].wakeAt : t \in Sleepers}
           next == now + GateTick
       IN now' = IF \E w \in due : w < next
                 THEN CHOOSE w \in due : \A v \in due : w <= v
                 ELSE next
    /\ tasks' = [tasks EXCEPT !.ticks = @ + 1]
    /\ UNCHANGED <<ticks, limits, cache, call, prev, calls, config, upstreamErrors,
                   nonTaskVars>>

(***************************************************************************)
(* Specifications                                                          *)
(***************************************************************************)
\* no handler invocation, no sampler run and no report under way
InitIdleJob ==
    /\ syncJob = <<>>
    /\ handler = IdleHandler
    /\ committed = {}

InitIdleSampler == sampler = IdleSampler

InitIdleReport == report = IdleReport

InitIdleRepo ==
    /\ commitMetrics = {}
    /\ repoStats = IdleRepoStats

InitIdleParams == params = IdleParams

InitIdleTasks == tasks = IdleTasks

InitIdleFlow ==
    /\ sampledRepo = {}
    /\ prMetrics = {}
    /\ issueMetrics = {}
    /\ flow = IdleFlow

vars == <<execVars, obVars, jobVars, samplerVars, reportVars, repoVars, paramVars, flowVars, taskVars>>

InitExec ==
    /\ now = StartNow
    /\ ticks = 0
    /\ limits = InitialLimits(StartNow)
    /\ cache = [k \in CacheKeys |-> NoEntry]
    /\ call = IdleCall
    /\ prev = NoSummary
    /\ calls = 0

\* nothing of the onboarding is under way
InitStore ==
    /\ sampledUser = [u \in Candidates |-> NoUser]
    /\ metrics = {}
    /\ ob = IdleOb
    /\ processed = 0
    /\ runs = 0

InitIdleOnboarding ==
    /\ InitStore
    /\ upstream = [u \in Candidates |-> [type |-> "User", calendar |-> NoCalendar]]

Init ==
    /\ InitExec
    /\ config = DefaultConfig
    /\ upstreamErrors = {Err404, Err503}
    /\ InitIdleOnboarding
    /\ InitIdleJob /\ InitIdleSampler /\ InitIdleReport
    /\ InitIdleRepo /\ InitIdleParams /\ InitIdleFlow /\ InitIdleTasks

Next ==
    \/ \E op \in Ops, arg \in Args : StartCall(op, arg)
    \/ GateWake
    \/ CacheCheck
    \/ \E h \in HeaderChoices, p \in Payloads : AttemptOk(h, p)
    \/ \E e \in upstreamErrors, j \in config.jitters : AttemptFail(e, j)
    \/ BackoffWake
    \/ ThrottleWake
    \/ Store
    \/ \E d \in TickSteps : Tick(d)
    \/ AdvanceToTimer

Spec == Init /\ [][Next]_vars

\* getUser and the two request functions that catch inside fetchFn
FileSpecOps == {"getUser"} \cup FileOps

NextFiles ==
    \/ \E op \in FileSpecOps, arg \in Args : StartCall(op, arg)
    \/ GateWake
    \/ CacheCheck
    \/ \E h \in HeaderChoices, p \in Payloads : AttemptOk(h, p)
    \/ \E e \in upstreamErrors, j \in config.jitters : AttemptFail(e, j)
    \/ \E e \in upstreamErrors : FileAttemptFail(e)
    \/ BackoffWake
    \/ Store
    \/ \E d \in TickSteps : Tick(d)
    \/ AdvanceToTimer

SpecFiles == Init /\ [][NextFiles]_vars

(***************************************************************************)
(* withRetries on its own, under every retry configuration                 *)
(***************************************************************************)
MaxRetryAttempts == 4
BaseDelays == {0, 800, 5000}
MaxDelays == {0, 1000, 8000}

\* GITHUB_RETRY_ATTEMPTS = max(1, n), GITHUB_RETRY_*_DELAY_MS = max(0, d)
RetryConfigs ==
    [attempts : 1 .. MaxRetryAttempts, baseDelay : BaseDelays,
     maxDelay : MaxDelays, jitters : {Jitters}]

InitRetry ==
    /\ InitExec
    /\ config \in RetryConfigs
    /\ upstreamErrors \in {{e, Err503} : e \in AllErrors}
    /\ InitIdleOnboarding
    /\ InitIdleJob /\ InitIdleSampler /\ InitIdleReport
    /\ InitIdleRepo /\ InitIdleParams /\ InitIdleFlow /\ InitIdleTasks

NextRetry ==
    \/ StartRetries
    \/ \E h \in {<<>>}, p \in Payloads : AttemptOk(h, p)
    \/ \E e \in upstreamErrors, j \in config.jitters : AttemptFail(e, j)
    \/ BackoffWake
    \/ AdvanceToTimer

SpecRetry == InitRetry /\ [][NextRetry]_vars

\* Every attempt settles (the request timeout bounds it) and every timer fires.
AttemptSettles ==
    \/ \E h \in {<<>>}, p \in Payloads : AttemptOk(h, p)
    \/ \E e \in upstreamErrors, j \in config.jitters : AttemptFail(e, j)

FairSpecRetry ==
    /\ SpecRetry
    /\ WF_vars(AttemptSettles)
    /\ WF_vars(BackoffWake)
    /\ WF_vars(AdvanceToTimer)

(***************************************************************************)
(* Onboarding of the candidates, one upsertUser call after the other       *)
(***************************************************************************)
Tiers == {"casual"}

InitOnboard ==
    /\ InitExec
    /\ config = DefaultConfig
    /\ upstreamErrors = {}
    /\ InitStore
    /\ upstream \in
          [Candidates ->
              [type : {"User", "Organization", "Bot"}, calendar : Calendars]]
    /\ upstream["dependabot[bot]"].type \in {"Bot", "User"}
    /\ upstream["dependabot[bot]"].calendar = NoCalendar
    /\ upstream["alice"].type # "Bot"
    /\ InitIdleJob /\ InitIdleSampler /\ InitIdleReport
    /\ InitIdleRepo /\ InitIdleParams /\ InitIdleFlow /\ InitIdleTasks

NextOnboard ==
    \/ \E u \in Candidates, tier \in Tiers : UpsertUserStart(u, tier)
    \/ GetUserFails
    \/ GetUserOk
    \/ SampledUserUpsert
    \/ SampledUserUpsertFails
    \/ FetchYearOk
    \/ FetchYearFails
    \/ WriteChunkOk
    \/ WriteChunkFails
    \/ Gate
    \/ GateDeleteFails
    \/ UpdateTotals
    \/ UpdateTotalsFails

SpecOnboard == InitOnboard /\ [][NextOnboard]_vars

(***************************************************************************)
(* Onboarding runs with an upstream whose calendars change between syncs   *)
(***************************************************************************)
DriftDays == {<<2020, 1>>, <<2023, 1>>}

NextOnboardDrift ==
    \/ NextOnboard
    \/ \E u \in Candidates, date \in DriftDays : UpstreamDayZeroed(u, date[1], date[2])

SpecOnboardDrift == InitOnboard /\ [][NextOnboardDrift]_vars

(***************************************************************************)
(* POST /api/sync and POST /api/adoption, one invocation after the other   *)
(***************************************************************************)
InitJob ==
    /\ InitExec
    /\ config = DefaultConfig
    /\ upstreamErrors = {}
    /\ InitIdleOnboarding
    /\ InitIdleJob /\ InitIdleSampler /\ InitIdleReport
    /\ InitIdleRepo /\ InitIdleParams /\ InitIdleFlow /\ InitIdleTasks

NextJob ==
    \/ \E route \in Routes, type \in JobTypes : PostStart(route, type)
    \/ JobCreate
    \/ JobCreateFails
    \/ SampleBand
    \/ SampleBandFails
    \/ \E ok \in BOOLEAN : UpsertUserReturns(ok)
    \/ UpsertUserThrows
    \/ FetchRepos
    \/ FetchReposFails
    \/ UpsertRepo
    \/ UpsertRepoFails
    \/ \E failed \in SUBSET Feeds : RepoFeeds(failed)
    \/ AISignals
    \/ AISignalsFails
    \/ UpdateCompleted
    \/ UpdateCompletedFails
    \/ UpdateFailed
    \/ UpdateFailedFails

SpecJob == InitJob /\ [][NextJob]_vars

\* POST /api/sync with type=repos, the body of syncRepos' loop step by step
NextRepoSync ==
    \/ PostStart("sync", "repos")
    \/ JobCreate
    \/ JobCreateFails
    \/ FetchRepos
    \/ FetchReposFails
    \/ UpsertRepo
    \/ UpsertRepoFails
    \/ RepoFeedReturns
    \/ RepoFeedThrows
    \/ UpdateCompleted
    \/ UpdateCompletedFails
    \/ UpdateFailed
    \/ UpdateFailedFails

SpecRepoSync == InitJob /\ [][NextRepoSync]_vars

(***************************************************************************)
(* The sampler: the ten band seeds, then runs of sampleUsersFromBand       *)
(***************************************************************************)
InitSampler ==
    /\ InitExec
    /\ config = DefaultConfig
    /\ upstreamErrors = {}
    /\ InitIdleOnboarding
    /\ InitIdleJob /\ InitIdleReport
    /\ InitIdleRepo /\ InitIdleParams /\ InitIdleFlow /\ InitIdleTasks
    /\ \E b \in BaseSeeds, p \in SearchPages, k \in SampledBands, n \in Targets :
          sampler = [IdleSampler EXCEPT !.pc = "seed", !.baseSeed = b, !.pages = p,
                                        !.band = k, !.target = n]

NextSampler ==
    \/ SeedBand
    \/ SamplerStart
    \/ SearchPage
    \/ SearchPageFails
    \/ Dedupe
    \/ ShuffleStep
    \/ Slice

SpecSampler == InitSampler /\ [][NextSampler]_vars

(***************************************************************************)
(* The reports: one request on a store that holds still                    *)
(***************************************************************************)
InitReport ==
    /\ InitExec
    /\ config = DefaultConfig
    /\ upstreamErrors = {}
    /\ InitIdleOnboarding
    /\ InitIdleJob /\ InitIdleSampler
    /\ InitIdleRepo /\ InitIdleParams /\ InitIdleFlow /\ InitIdleTasks
    /\ \E cohort \in SUBSET Users, store \in Stores, repoData \in BOOLEAN :
          report = [IdleReport EXCEPT
              !.cohort = cohort,
              !.rows = {r \in store : r.userId \in cohort},
              !.repoData = repoData]

NextReport ==
    \/ \E range \in MetricsRanges : MetricsGet(range)
    \/ MetricsEmpty
    \/ MetricsThrows
    \/ MetricsMonth
    \/ \E nowYm \in NowMonths : FindingsGet(nowYm)

SpecReport == InitReport /\ [][NextReport]_vars

(***************************************************************************)
(* The commit rows of a repository over several syncs                      *)
(***************************************************************************)
InitRepoStats ==
    /\ InitExec
    /\ config = DefaultConfig
    /\ upstreamErrors = {}
    /\ InitIdleOnboarding
    /\ InitIdleJob /\ InitIdleSampler /\ InitIdleReport /\ InitIdleParams /\ InitIdleFlow /\ InitIdleTasks
    /\ commitMetrics = {}
    /\ repoStats = IdleRepoStats

NextRepoStats ==
    \/ \E stats \in StatsChoices : ProcessRepoStatsStart(stats)
    \/ ProcessRepoStatsNoRepo
    \/ WriteWeek
    \/ WriteWeekFails
    \/ ProcessRepoStatsReturns

SpecRepoStats == InitRepoStats /\ [][NextRepoStats]_vars

(***************************************************************************)
(* The parameters of one sync                                              *)
(***************************************************************************)
InitParams ==
    /\ InitExec
    /\ config = DefaultConfig
    /\ upstreamErrors = {}
    /\ InitIdleOnboarding
    /\ InitIdleJob /\ InitIdleSampler /\ InitIdleReport /\ InitIdleRepo /\ InitIdleFlow /\ InitIdleTasks
    /\ \E env \in Environments : params = [IdleParams EXCEPT !.env = env]

NextParams ==
    \/ \E type \in JobTypes, q \in Queries : PostRecords(type, q)
    \/ SyncUsersRuns
    \/ SyncReposRuns

SpecParams == InitParams /\ [][NextParams]_vars

(***************************************************************************)
(* upsertRepo on a table that starts empty                                 *)
(***************************************************************************)
InitRepoUpsert ==
    /\ InitExec
    /\ config = DefaultConfig
    /\ upstreamErrors = {}
    /\ InitIdleOnboarding
    /\ InitIdleJob /\ InitIdleSampler /\ InitIdleReport
    /\ InitIdleRepo /\ InitIdleParams /\ InitIdleFlow /\ InitIdleTasks

NextRepoUpsert ==
    \/ \E repo \in RepoPayloads, language \in StrataLanguages :
          UpsertRepoRow(repo, language)
    \/ \E repo \in RepoPayloads, language \in StrataLanguages :
          UpsertRepoRowRejected(repo, language)

SpecRepoUpsert == InitRepoUpsert /\ [][NextRepoUpsert]_vars

(***************************************************************************)
(* The day buckets of one repository: runs of processRepoPRs and           *)
(* processRepoIssues, one after the other                                  *)
(***************************************************************************)
InitRepoFlow ==
    /\ InitExec
    /\ config = DefaultConfig
    /\ upstreamErrors = {}
    /\ InitIdleOnboarding
    /\ InitIdleJob /\ InitIdleSampler /\ InitIdleReport
    /\ InitIdleRepo /\ InitIdleParams
    /\ sampledRepo = upsertRepo({}, RepoPayload(101, "o", "a", "d1", 10, 1, 0),
                                "TypeScript", 1)
    /\ prMetrics = {}
    /\ issueMetrics = {}
    /\ flow = IdleFlow
    /\ InitIdleTasks

NextRepoFlow ==
    \/ \E kind \in FlowKinds, list \in ItemLists : ProcessFlowStart(kind, 101, list)
    \/ \E kind \in FlowKinds, list \in ItemLists : ProcessFlowNoRepo(kind, 102, list)
    \/ WriteDay
    \/ WriteDayFails
    \/ ProcessFlowReturns

SpecRepoFlow == InitRepoFlow /\ [][NextRepoFlow]_vars

(***************************************************************************)
(* Two tasks at the gate of the shared rate limiter                        *)
(***************************************************************************)
InitGate ==
    /\ InitExec
    /\ config = DefaultConfig
    /\ upstreamErrors = {}
    /\ InitIdleOnboarding
    /\ InitIdleJob /\ InitIdleSampler /\ InitIdleReport
    /\ InitIdleRepo /\ InitIdleParams /\ InitIdleFlow /\ InitIdleTasks

NextGate ==
    \/ \E t \in TaskIds, type \in GateChannels : GateCall(t, type)
    \/ \E t \in TaskIds : GateTimer(t)
    \/ \E t \in TaskIds, headers \in GateHeaders : GateResponse(t, headers)
    \/ GateClock

SpecGate == InitGate /\ [][NextGate]_vars

(***************************************************************************)
(* Rate governor                                                           *)
(***************************************************************************)
\* C2: after any sequence of updateFromHeaders calls, canMakeRequest(channel)
\* is false whenever the channel's remaining is <= its buffer (5 for search,
\* 100 for rest and graphql) and its resetAt is still in the future.
C2_CanMakeRequestFalseWhenExhausted ==
    \A ch \in Channels :
        LET buf == IF ch = "search" THEN 5 ELSE 100
        IN (limits[ch].remaining <= buf /\ limits[ch].resetAt > now)
              => ~canMakeRequest(limits, ch, now)

\* a budget written by updateFromHeaders is at its buffer with a reset ahead
C2_Witness ==
    \E ch \in Channels :
        /\ limits[ch] # InitialLimits(StartNow)[ch]
        /\ limits[ch].remaining = (IF ch = "search" THEN 5 ELSE 100)
        /\ limits[ch].resetAt > now

\* C3: if waitIfNeeded(channel) is called while the channel's remaining is
\* <= its buffer and its resetAt is in the future, it does not return before
\* resetAt: the caller is suspended for resetAt - now + 1s.
C3_WaitIfNeededNotBeforeReset ==
    (/\ call.pc = "cache_check"
     /\ call.gateLow
     /\ call.gateResetAt > call.gateCalledAt)
        => /\ call.gateReturnedAt >= call.gateResetAt
           /\ call.gateReturnedAt - call.gateCalledAt
                 >= call.gateResetAt - call.gateCalledAt + 1000

\* waitIfNeeded has just returned from a call made at the buffer, reset ahead
C3_Witness ==
    /\ call.pc = "cache_check"
    /\ call.gateLow
    /\ call.gateResetAt > call.gateCalledAt
    /\ call.gateReturnedAt > call.gateCalledAt

(***************************************************************************)
(* Request executor                                                        *)
(***************************************************************************)
\* C4: every upstream request attempt, the 2nd..Nth attempts of withRetries
\* included, is preceded by a waitIfNeeded on its channel that ran after the
\* previous attempt on that channel finished.
C4_EveryAttemptGated ==
    (call.pc = "attempt" /\ call.op \in Ops) => call.gated

\* C5: after every successful upstream call on any of the three channels the
\* channel's budget equals the values carried by the response's rate-limit
\* headers; in particular for getUserContributions and the graphql budget.
C5_BudgetFollowsResponse ==
    (/\ call.op \in Ops /\ call.responded /\ call.pc \in {"store", "throttle"}
     /\ "x-ratelimit-remaining" \in DOMAIN call.respHeaders)
        => limits[channelOf(call.op)] =
              [remaining |-> HeaderInt(call.respHeaders, "x-ratelimit-remaining", 5000),
               limit     |-> HeaderInt(call.respHeaders, "x-ratelimit-limit", 5000),
               resetAt   |-> HeaderInt(call.respHeaders, "x-ratelimit-reset", 0) * 1000]

\* C6: a call whose cache entry is unexpired returns the cached value with no
\* upstream request and no rate-governor interaction: waitIfNeeded is neither
\* invoked nor able to suspend the caller.
C6_CacheHitSkipsGovernor ==
    (call.pc = "done" /\ call.fromCache)
        => /\ call.fetches = 0
           /\ ~call.gateInvoked
           /\ call.waited = 0

\* the lifetime of each volatility class, in milliseconds
ClassTtlMs(op) ==
    CASE op = "getUser" -> 24 * 3600 * 1000
      [] op = "searchUsers" -> 12 * 3600 * 1000
      [] op = "getUserContributions" -> 3600 * 1000

SameKeyAfterStore ==
    /\ call.pc = "done"
    /\ call.op \in Ops
    /\ prev.op = call.op /\ prev.arg = call.arg
    /\ prev.outcome = "return" /\ prev.stored

\* C7: the same operation with the same cache key called twice, one call after
\* the other and within the TTL of its class, makes exactly one upstream
\* request and both calls return the same payload; a call after the entry's
\* expiry contacts upstream again and overwrites the entry.
C7_OneFetchWithinTtl ==
    SameKeyAfterStore =>
        IF call.checkedAt < prev.storedAt + ClassTtlMs(call.op)
          THEN /\ prev.fetches + call.fetches = 1
               /\ call.outcome = "return"
               /\ call.data = prev.data
          ELSE /\ call.fetches = 1
               /\ call.outcome = "return" =>
                    cache[Key(call)] =
                        [present |-> TRUE,
                         responseData |-> JSONstringify(call.data),
                         expiresAt |-> call.storedAt + ClassTtlMs(call.op)]

\* the second call came five seconds after the first and was served
C7_Witness ==
    /\ SameKeyAfterStore
    /\ call.checkedAt > prev.storedAt
    /\ call.checkedAt < prev.storedAt + ClassTtlMs(call.op)
    /\ call.outcome = "return"
    /\ call.data = JArr(<<"a", "b">>)

\* (the other case of C7) the second call came after the entry's expiry and
\* replaced it with another payload
C7_ExpiredCase ==
    /\ SameKeyAfterStore
    /\ call.checkedAt >= prev.storedAt + ClassTtlMs(call.op)
    /\ call.outcome = "return"
    /\ call.data # prev.data

(***************************************************************************)
(* Retry policy                                                            *)
(***************************************************************************)
\* an error the claim calls non-retryable
NonRetryable(e) ==
    /\ (IF e.status # 0 THEN e.status ELSE e.respStatus)
          \notin {408, 429, 500, 502, 503, 504}
    /\ e.code \notin {"ETIMEDOUT", "ECONNRESET", "ECONNREFUSED", "EAI_AGAIN"}
    /\ e.name # "AbortError"
    /\ ~e.fetchFailed

\* C8: when the wrapped call fails with a non-retryable error (e.g. a 404),
\* withRetries makes exactly one upstream attempt, performs no backoff sleep
\* and throws that error; no attempt ever follows a non-retryable failure.
C8_NonRetryablePropagates ==
    \A i \in 1 .. Len(call.trace) :
        (~call.trace[i].ok /\ NonRetryable(call.trace[i].error))
            => /\ i = Len(call.trace)
               /\ call.sleeps = i - 1
               /\ call.pc = "done"
               /\ call.outcome = "throw"
               /\ call.error = call.trace[i].error

\* a 404 on the first attempt
C8_Witness ==
    /\ call.op = "withRetries"
    /\ call.pc = "done"
    /\ Len(call.trace) = 1
    /\ call.trace[1].error = Err404
    /\ call.sleeps = 0
    /\ config.attempts = 3

Finished == call.pc = "done"
Running == call.pc \in {"attempt", "backoff"}

C9_Bounded ==
    /\ Len(call.trace) <= config.attempts
    /\ (Finished /\ call.outcome = "return") =>
          /\ call.trace[Len(call.trace)].ok
          /\ call.data = call.trace[Len(call.trace)].payload
          /\ \A i \in 1 .. Len(call.trace) - 1 : ~call.trace[i].ok
    /\ (Finished /\ call.outcome = "throw") =>
          /\ \A i \in 1 .. Len(call.trace) : ~call.trace[i].ok
          /\ call.error = call.trace[Len(call.trace)].error
          /\ (\A i \in 1 .. Len(call.trace) : ~NonRetryable(call.trace[i].error))
                => Len(call.trace) = config.attempts

\* C9: withRetries invokes the wrapped call at most N = GITHUB_RETRY_ATTEMPTS
\* times and always terminates: it returns the payload of the first attempt
\* that succeeds, and when all N attempts fail with retryable errors it throws
\* the error of the N-th attempt.
C9_AtMostNAttemptsAndTerminates ==
    /\ []C9_Bounded
    /\ (Running ~> Finished)

\* a 503 followed by a 200 on attempt 2, with attempts = 3
C9_Witness ==
    /\ call.op = "withRetries"
    /\ Finished /\ call.outcome = "return"
    /\ config.attempts = 3
    /\ Len(call.trace) = 2
    /\ call.trace[1].error = Err503
    /\ call.data = JArr(<<"a", "b">>)

\* C10: across retry attempts 1..N the non-jittered backoff delay
\* min(maxDelay, base * 2^(attempt-1)) is non-decreasing in the attempt number
\* and never exceeds the configured maximum.
C10_BackoffMonotoneAndCapped ==
    \A i \in 1 .. Len(call.delays) :
        /\ call.delays[i] <= config.maxDelay
        /\ call.delays[i] >= 0
        /\ i > 1 => call.delays[i - 1] <= call.delays[i]

\* the delay grew from one attempt to the next and then hit the cap
C10_Witness ==
    /\ Len(call.delays) = 3
    /\ call.delays[1] < call.delays[2]
    /\ call.delays[2] = call.delays[3]
    /\ call.delays[3] = config.maxDelay

(***************************************************************************)
(* Baseline gate                                                           *)
(***************************************************************************)
RowsOfUser(u) == {r \in metrics : r.userId = u}

\* C1: when upsertUser returns after at least one baseline-year collection
\* threw, or with an accumulated baseline total below the threshold, no
\* SampledUser row and no UserContributionMetrics row of the candidate remain
\* and the candidate is reported as not included (false, not counted); a
\* baseline total exactly equal to the threshold passes the gate.
C1_BaselineGateAllOrNothing ==
    (ob.pc = "done" /\ ob.outcome = "return" /\ ob.reachedGate) =>
        IF ob.threw \cap {2020, 2021} # {} \/ ob.baselineContributions < 50
          THEN /\ ~sampledUser[ob.user].present
               /\ RowsOfUser(ob.user) = {}
               /\ ob.result = FALSE
          ELSE /\ ob.result = TRUE
               /\ sampledUser[ob.user].present

\* a baseline year threw after rows of the candidate had been written
C1_Witness ==
    /\ ob.pc = "done" /\ ob.outcome = "return" /\ ob.reachedGate
    /\ ob.threw = {2021}
    /\ ob.wrote > 0
    /\ ob.baselineContributions >= 50
    /\ ob.result = FALSE

\* (the other case of C1) a baseline total equal to the threshold is accepted
C1_ThresholdCase ==
    /\ ob.pc = "done" /\ ob.outcome = "return"
    /\ ob.baselineContributions = 50
    /\ ob.result = TRUE

\* C13: two upsertUser runs on the same candidate, one after the other, with
\* upstream answering both the same way, end the same way: both reject and
\* no SampledUser row is left, or both accept and the stored
\* baselineContributions after the second run is the one after the first.
C13_UpsertUserIdempotent ==
    (/\ ob.pc = "done" /\ ob.outcome = "return" /\ ob.failures = 0
     /\ ob.last.user = ob.user /\ ob.last.clean) =>
        /\ ob.result = ob.last.accepted
        /\ ~ob.result =>
              ~ob.last.present /\ ~sampledUser[ob.user].present
        /\ ob.result =>
              /\ ob.last.present /\ sampledUser[ob.user].present
              /\ sampledUser[ob.user].baselineContributions =
                     ob.last.baselineContributions

\* accepted twice over, with a baseline above the threshold
C13_Witness ==
    /\ ob.pc = "done" /\ ob.outcome = "return" /\ ob.failures = 0
    /\ ob.last.user = ob.user /\ ob.last.clean
    /\ ob.result /\ ob.last.accepted
    /\ sampledUser[ob.user].baselineContributions = 55
    /\ RowsOfUser(ob.user) # {}

\* rows of a year as the calendar gives them
StoredRowsOf(u, year) ==
    LET rows == rowsOf(year, upstream[u].calendar[year], 1)
    IN {[userId |-> u, date |-> rows[k].date,
         contributionCount |-> rows[k].contributionCount] : k \in DOMAIN rows}

\* C14: once the gate is passed, a failure while collecting a post-baseline
\* year never removes the user or the rows already stored, the remaining post
\* years are still attempted and upsertUser still returns true.
C14_PostYearFailureNotFatal ==
    (ob.passed /\ ob.threw \cap {2022, 2023, 2024, 2025} # {}) =>
        /\ sampledUser[ob.user].present
        /\ \A y \in {2020, 2021} : StoredRowsOf(ob.user, y) \subseteq metrics
        /\ \A y \in ob.attempted \ ob.threw :
              (ob.pc = "write" /\ y = curYear(ob)) \/ StoredRowsOf(ob.user, y) \subseteq metrics
        /\ (ob.pc = "done" /\ ob.failures = Cardinality(ob.threw)) =>
              /\ ob.outcome = "return" /\ ob.result = TRUE
              /\ {2022, 2023, 2024, 2025} \subseteq ob.attempted

\* 2022 threw, the later years were collected and stored, the user is in
C14_Witness ==
    /\ ob.pc = "done" /\ ob.outcome = "return" /\ ob.result
    /\ 2022 \in ob.threw
    /\ StoredRowsOf(ob.user, 2023) # {}
    /\ StoredRowsOf(ob.user, 2023) \subseteq metrics

\* C15: in every state of a user sync, the intermediate ones included, every
\* SampledUser row present belongs to a user that has already passed the
\* baseline gate: a row created by the onboarding under way exists only once
\* its gate has let the user through.
C15_RowsOnlyAfterGate ==
    \A u \in Candidates :
        (sampledUser[u].present /\ u = ob.user /\ ~ob.hadRow) => ob.passed

(***************************************************************************)
(* The SyncJob row of an invocation                                        *)
(***************************************************************************)
Responded == handler.pc = "done" /\ handler.response \in {"200", "500"}

\* C16: each POST invocation creates exactly one SyncJob row in status
\* running, and when the handler returns its response (success or error) the
\* row has moved exactly once, to completed or failed, whichever step failed.
C16_JobLeavesRunningOnce ==
    /\ handler.pc \notin {"idle", "create"} /\ handler.jobId # 0 =>
          /\ handler.jobId = Len(syncJob)
          /\ syncJob[handler.jobId].updates = 0 =>
                syncJob[handler.jobId].status = "running"
    /\ Responded =>
          /\ syncJob[handler.jobId].status \in {"completed", "failed"}
          /\ syncJob[handler.jobId].updates = 1

\* C17: when an exception escapes syncUsers or syncRepos, the handler updates
\* the job's row to failed with errorMessage equal to the exception's message
\* (the row is so once the store has taken the update), and every row
\* committed before the exception is still present: nothing is rolled back.
C17_EscapedExceptionFailsJob ==
    handler.escaped # NoMessage =>
        /\ handler.error = handler.escaped
        /\ handler.committedAtEscape \subseteq committed
        /\ handler.pc = "catch" => syncJob[handler.jobId].status = "running"
        /\ syncJob[handler.jobId].updates > 0 =>
              /\ syncJob[handler.jobId].status = "failed"
              /\ syncJob[handler.jobId].errorMessage = handler.escaped
        /\ (handler.pc = "done" /\ "store" \notin handler.kinds) =>
              /\ handler.response = "500"
              /\ syncJob[handler.jobId].status = "failed"
              /\ syncJob[handler.jobId].updates = 1

\* a search failed in the second band, after users of the first were committed
C17_Witness ==
    /\ Responded /\ handler.escaped = SearchFailed
    /\ syncJob[handler.jobId].status = "failed"
    /\ syncJob[handler.jobId].errorMessage = SearchFailed
    /\ handler.committedAtEscape # {}
    /\ handler.committedAtEscape \subseteq committed

\* candidates and repositories a sync of this type goes through
Entities(type) ==
    (IF shouldSyncUsers(type) THEN AllCandidates ELSE {})
        \cup (IF shouldSyncRepos(type) THEN AllRepos ELSE {})

\* C18: a failure confined to one user or one repository never makes the job
\* fail: all remaining candidates, repositories, bands and languages are still
\* processed and the job ends completed.
C18_EntityFailureNeverFailsJob ==
    (/\ Responded /\ handler.route = "sync"
     /\ handler.kinds = {"entity"}) =>
        /\ syncJob[handler.jobId].status = "completed"
        /\ handler.visited = Entities(handler.type)

(***************************************************************************)
(* The seeded sampler                                                      *)
(***************************************************************************)
\* C11: for a fixed seed and fixed upstream search pages, independent runs of
\* sampleUsersFromBand return identical lists, same elements in the same
\* order.
C11_SamplerDeterministic ==
    \A a \in DOMAIN sampler.out, b \in DOMAIN sampler.out :
        sampler.out[a] = sampler.out[b]

\* two runs returned the same list, which the shuffle had reordered
C11_Witness ==
    /\ Len(sampler.out) = 2
    /\ sampler.out[1] = sampler.out[2]
    /\ Len(sampler.out[2]) >= 4
    /\ sampler.out[2] # sampler.deduped
    /\ Range(sampler.out[2]) = Range(sampler.deduped)

\* C12: under one base seed, makeBandSeed gives pairwise distinct seeds to the
\* ten bands of USER_BANDS, the bands 100..150 and 150..200 included.
C12_BandSeedsDistinct ==
    \A a \in DOMAIN sampler.seeds, b \in DOMAIN sampler.seeds :
        a # b => sampler.seeds[a] # sampler.seeds[b]

\* all ten seeds are made, from a base seed that wraps round 2^32
C12_Witness ==
    /\ Len(sampler.seeds) = 10
    /\ sampler.baseSeed = <<65535, 65535>>
    /\ sampler.seeds[9] = ToU32(5649)
    /\ sampler.seeds[8] = ToU32(8049)

(***************************************************************************)
(* The reported rates                                                      *)
(***************************************************************************)
StoredIn(y, m) ==
    {r \in report.rows : r.date[1] = y /\ r.date[2] = m
                         /\ DateLeq(report.start, r.date) /\ DateLeq(r.date, report.end)}
StoredBetween(start, end) ==
    {r \in report.rows : DateLeq(start, r.date) /\ DateLeq(r.date, end)}

OrderStatistic(users, val, k) ==
    CHOOSE v \in {val[u] : u \in users} :
        /\ Cardinality({u \in users : val[u] < v}) < k
        /\ Cardinality({u \in users : val[u] <= v}) >= k

\* the quartile q/4 of the daily rates of all the users, those without rows
\* of the month counted with 0, interpolated linearly between neighbours
Quartile(users, ym, q) ==
    LET val == [u \in users |-> sumCounts({r \in StoredIn(ym[1], ym[2]) : r.userId = u})]
        pos == (Cardinality(users) - 1) * q
        f == pos \div 4
        d == pos % 4
    IN IF users = {} THEN FracZero
       ELSE IF d = 0 THEN <<OrderStatistic(users, val, f + 1), daysInMonthFromYm(ym)>>
       ELSE <<OrderStatistic(users, val, f + 1) * (4 - d)
                 + OrderStatistic(users, val, f + 2) * d,
              4 * daysInMonthFromYm(ym)>>

MatchesQuartiles(quantiles, users, ym) ==
    /\ FracEq(quantiles.p25, Quartile(users, ym, 1))
    /\ FracEq(quantiles.p50, Quartile(users, ym, 2))
    /\ FracEq(quantiles.p75, Quartile(users, ym, 3))

\* C20: for each month, the reported p25/p50/p75 of a tier (of the cohort)
\* are the linearly interpolated percentiles of the daily rates of all the
\* users of the tier (of the cohort), users without stored rows in the month
\* entering with 0.
C20_PercentilesZeroPadded ==
    \A k \in DOMAIN report.entries :
        LET e == report.entries[k]
        IN /\ MatchesQuartiles(e.quantiles, report.cohort, e.ym)
           /\ DOMAIN e.byTierQuantiles = {CohortTier[u] : u \in report.cohort}
           /\ \A t \in DOMAIN e.byTierQuantiles :
                 MatchesQuartiles(e.byTierQuantiles[t],
                                  {u \in report.cohort : CohortTier[u] = t}, e.ym)

\* a tier of four users, two of them without rows in April 2020: the median
\* is that of 0, 0, 4/30, 10/30, not that of the two active values
C20_Witness ==
    \E k \in DOMAIN report.entries :
        LET e == report.entries[k]
        IN /\ e.ym = <<2020, 4>>
           /\ {u \in report.cohort : CohortTier[u] = "casual"} = {"a", "b", "c", "d"}
           /\ {r.userId : r \in StoredIn(2020, 4)} \ {"e"} = {"a", "b"}
           /\ FracEq(e.byTierQuantiles["casual"].p50, <<2, 30>>)
           /\ FracEq(e.byTierQuantiles["casual"].p25, FracZero)
           /\ FracEq(e.byTierQuantiles["casual"].p75, <<11, 60>>)
           /\ ~FracEq(e.byTierQuantiles["casual"].p50, <<7, 30>>)

(***************************************************************************)
(* The findings periods and the delta distribution                         *)
(***************************************************************************)
MonthIndex(y, m) == y * 12 + m
PostDates ==
    {date \in (2022..2023) \X (1..12) \X (1..31) :
        /\ date[3] <= daysInMonthFromYm(<<date[1], date[2]>>)
        /\ MonthIndex(date[1], date[2])
              < MonthIndex(report.nowYm[1], report.nowYm[2])}

\* C21: the post period of the findings ends with the last day of the month
\* before the one "now" is in (December of the year before when now is in
\* January); post.days and the post totals count no day of the current month.
C21_PostEndsAtLastFullMonth ==
    report.endpoint = "findings" /\ report.pc = "responded" =>
        LET post == report.periods[2]
        IN /\ MonthIndex(post.end[1], post.end[2])
                 = MonthIndex(report.nowYm[1], report.nowYm[2]) - 1
           /\ post.end[2] \in 1..12
           /\ post.end[3] = daysInMonthFromYm(<<post.end[1], post.end[2]>>)
           /\ post.days = Cardinality(PostDates)
           /\ post.totalContributions
                 = sumCounts({r \in report.rows : r.date \in PostDates})

\* now is in January 2023: the post period is the 365 days of 2022, and the
\* stored row of 3 January 2023 is not in its total
C21_Witness ==
    /\ report.endpoint = "findings" /\ report.pc = "responded"
    /\ report.nowYm = <<2023, 1>>
    /\ report.periods[2].end = <<2022, 12, 31>>
    /\ report.periods[2].days = 365
    /\ \E r \in report.rows : r.date = <<2023, 1, 3>>
    /\ report.periods[2].totalContributions = 12

PreStart == <<2020, 1, 1>>
PreEnd == <<2021, 12, 31>>
DeltaOf(u) ==
    LET pre == sumCounts({r \in StoredBetween(PreStart, PreEnd) : r.userId = u})
        post == sumCounts({r \in report.rows : r.userId = u /\ r.date \in PostDates})
    IN <<post * report.periods[1].days - pre * report.periods[2].days,
         report.periods[1].days * report.periods[2].days>>
UsersWithData ==
    {u \in Users : \E r \in report.rows :
        r.userId = u /\ ((DateLeq(PreStart, r.date) /\ DateLeq(r.date, PreEnd))
                         \/ r.date \in PostDates)}
RECURSIVE SumNumerators(_)
SumNumerators(S) ==
    IF S = {} THEN 0
    ELSE LET u == CHOOSE x \in S : TRUE IN DeltaOf(u)[1] + SumNumerators(S \ {u})

\* C22: the delta distribution of the findings has one value per user with a
\* stored row between the start of the pre period and the end of the post
\* period, postTotal/post.days - preTotal/pre.days; users without rows add
\* no value; n, mean and pctPositive are taken over these values alone.
C22_DeltasOnePerUserWithData ==
    report.endpoint = "findings" /\ report.pc = "responded" =>
        LET dist == report.distribution
            n == Cardinality(UsersWithData)
        IN /\ dist.n = n
           /\ Len(dist.deltas) = n
           /\ \A u \in UsersWithData :
                 Cardinality({i \in DOMAIN dist.deltas : FracEq(dist.deltas[i], DeltaOf(u))})
                    = Cardinality({w \in UsersWithData : FracEq(DeltaOf(w), DeltaOf(u))})
           /\ n > 0 => /\ FracEq(dist.mean, <<SumNumerators(UsersWithData),
                                              n * report.periods[1].days
                                                * report.periods[2].days>>)
                       /\ FracEq(dist.pctPositive,
                                 <<Cardinality({u \in UsersWithData : DeltaOf(u)[1] > 0}), n>>)
           /\ n = 0 => dist.mean = FracZero /\ dist.pctPositive = FracZero

\* a cohort of five of whom d has no stored row: four deltas, one of them
\* positive (b: 6/31 - 6/731), now being in February 2022
C22_Witness ==
    /\ report.endpoint = "findings" /\ report.pc = "responded"
    /\ report.nowYm = <<2022, 2>>
    /\ report.cohort = Users
    /\ UsersWithData = {"a", "b", "c", "e"}
    /\ report.distribution.n = 4
    /\ FracEq(report.distribution.pctPositive, <<1, 4>>)
    /\ \E i \in 1..4 : FracEq(report.distribution.deltas[i], <<6 * 731 - 6 * 31, 731 * 31>>)
    /\ \E i \in 1..4 : FracEq(report.distribution.deltas[i], <<0 - 15, 731>>)

(***************************************************************************)
(* The commit rows                                                         *)
(***************************************************************************)
\* C23, as stated: when a sync writes a week whose CommitMetrics row exists
\* already, the commit and line counts of the fetch are added to the stored
\* counts.
C23_CommitRowsAdditive ==
    repoStats.last.existed =>
        LET row == storedTotals(commitMetrics, repoStats.last.week)
        IN /\ row.commits = repoStats.last.before.commits + repoStats.last.totals.commits
           /\ row.added = repoStats.last.before.added + repoStats.last.totals.added
           /\ row.removed = repoStats.last.before.removed + repoStats.last.totals.removed

\* C23, amended: a week's commit row, new or existing, holds the sums of the
\* week's counts over the contributors of the latest fetch; an existing row
\* is overwritten with them, nothing is added to it.
C23_CommitRowsReplaced ==
    /\ \A r \in commitMetrics : Cardinality(existingRow(commitMetrics, r.date)) = 1
    /\ repoStats.last.week # 0 =>
          storedTotals(commitMetrics, repoStats.last.week) = repoStats.last.totals

\* a second sync has written week 1, whose row held 5 commits of two
\* contributors: the row holds the 1 commit of this fetch, not 6
C23_Witness ==
    /\ repoStats.runs = 2
    /\ repoStats.last.week = 1
    /\ repoStats.last.existed
    /\ repoStats.last.before = [commits |-> 5, added |-> 15, removed |-> 3]
    /\ repoStats.last.totals = [commits |-> 1, added |-> 4, removed |-> 0]
    /\ storedTotals(commitMetrics, 1) = [commits |-> 1, added |-> 4, removed |-> 0]

(***************************************************************************)
(* The parameter snapshot                                                  *)
(***************************************************************************)
\* C24: what the SyncJob row records in samplingParams and samplingSeed is
\* what syncUsers and syncRepos work with in that job, for every query and
\* environment.
C24_SnapshotIsEffective ==
    /\ params.pc \in {"users", "repos"} /\ params.resolved.shouldSyncUsers =>
          params.recordedUsers = params.usedUsers
    /\ params.pc = "repos" => params.recordedRepos = params.usedRepos

\* REPO_MIN_STARS is negative and repoMinStars is no number: the row records
\* the negative threshold, syncRepos searches from 0
C24_Witness ==
    /\ params.pc = "repos"
    /\ params.env.REPO_MIN_STARS = -5
    /\ params.recordedRepos.minStars = -5
    /\ params.usedRepos.minStars = 0

(***************************************************************************)
(* Malformed date ranges                                                   *)
(***************************************************************************)
MalformedRange ==
    \/ ~isValidDate(report.start)
    \/ ~isValidDate(report.end)
    \/ ~DateLeq(report.start, report.end)

\* C25: a metrics request whose startDate or endDate is no date, or whose
\* start is later than its end, is answered with an error that names the
\* input error, never with a success payload.
C25_MalformedRangeRejected ==
    report.endpoint = "metrics" /\ report.pc = "responded" /\ MalformedRange =>
        /\ report.status >= 400
        /\ report.error \notin {"none", "Failed to fetch metrics"}

\* startDate 2020-04-30 and endDate 2020-02-01 on a store with rows: the
\* answer is the success payload of the empty summary
C25_Witness ==
    /\ report.endpoint = "metrics" /\ report.pc = "responded"
    /\ report.start = <<2020, 4, 30>> /\ report.end = <<2020, 2, 1>>
    /\ report.rows # {}
    /\ report.status = 200
    /\ report.empty

(***************************************************************************)
(* The stored daily rows against upstream                                  *)
(***************************************************************************)
\* C26: every stored daily row has contributionCount > 0, and after an
\* onboarding that kept the user, for every year it collected without
\* failure, the stored rows of the user in that year are exactly the days
\* whose upstream count is non-zero, with the upstream counts.
C26_StoredRowsMirrorUpstream ==
    /\ \A r \in metrics : r.contributionCount > 0
    /\ (ob.pc = "done" /\ ob.outcome = "return" /\ ob.result) =>
          \A y \in ob.attempted \ ob.threw :
              {r \in metrics : r.userId = ob.user /\ r.date[1] = y}
                 = StoredRowsOf(ob.user, y)

\* the second onboarding of a user has returned true with nothing thrown,
\* and a row is still stored for a day whose upstream count is 0 by now
C26_Witness ==
    /\ ob.pc = "done" /\ ob.outcome = "return" /\ ob.result /\ ob.threw = {}
    /\ runs = 2
    /\ \E r \in metrics :
          /\ r.userId = ob.user
          /\ r.date[1] \in ob.attempted
          /\ upstream[ob.user].calendar[r.date[1]][r.date[2]] = 0

(***************************************************************************)
(* What a response does to the three budgets                               *)
(***************************************************************************)
\* the step is a resolved request of the function op
Responds(op) ==
    /\ call.pc = "attempt" /\ call.op = op
    /\ call'.responded
    /\ Len(call'.trace) = Len(call.trace) + 1
    /\ call'.trace[Len(call'.trace)].ok

\* the budget record the rate-limit headers of a response stand for
ParsedBudget(headers) ==
    [remaining |-> IF "x-ratelimit-remaining" \in DOMAIN headers
                      THEN headers["x-ratelimit-remaining"] ELSE 5000,
     limit     |-> IF "x-ratelimit-limit" \in DOMAIN headers
                      THEN headers["x-ratelimit-limit"] ELSE 5000,
     resetAt   |-> IF "x-ratelimit-reset" \in DOMAIN headers
                      THEN headers["x-ratelimit-reset"] * 1000 ELSE 0]

\* C27: a response handed to updateFromHeaders(headers, channel) leaves that
\* channel's budget equal to the record parsed from the headers, whatever
\* the budget was before, and leaves the two other channels as they were;
\* no other step changes a budget.
C27_UpdateReplacesOneChannel ==
    [][/\ \A op \in {"searchUsers", "getUser"} :
            Responds(op) =>
               /\ limits'[channelOf(op)] = ParsedBudget(call'.respHeaders)
               /\ \A ch \in Channels \ {channelOf(op)} :
                      limits'[ch] = limits[ch]
       /\ (\A op \in {"searchUsers", "getUser"} : ~Responds(op)) =>
             limits' = limits]_vars

\* a search response has overwritten the search budget with the values of
\* its headers while the rest budget still holds what an earlier response
\* wrote and the graphql budget is the initial one
C27_Witness ==
    /\ call.op = "searchUsers" /\ call.responded
    /\ limits["search"] = ParsedBudget(call.respHeaders)
    /\ limits["search"] # InitialLimits(StartNow)["search"]
    /\ limits["rest"] # InitialLimits(StartNow)["rest"]
    /\ limits["rest"] # limits["search"]
    /\ limits["graphql"] = InitialLimits(StartNow)["graphql"]

(***************************************************************************)
(* The three feeds of a repository                                         *)
(***************************************************************************)
\* the repository whose try blocks syncRepos is in
InFeeds(r) ==
    /\ handler.pc = "repos_feeds"
    /\ LanguageRepos[handler.lang][handler.repo] = r

\* repositories counted by count++ in this invocation
CountedRepos ==
    {r \in AllRepos : (\E f \in Feeds : <<r, f>> \in handler.tried) \/ InFeeds(r)}

\* C28: for a repository one of whose three feeds (contributor stats, PRs,
\* issues) failed, the two other feeds are still attempted, in the order of
\* the code, the repository's upsert stays committed and the repository is
\* counted in the processed count.
C28_FeedFailureIsIsolated ==
    \A r \in AllRepos, f \in Feeds :
        (<<r, f>> \in handler.tried /\ <<r, f>> \notin handler.fed) =>
            /\ r \in committed
            /\ handler.count = Cardinality(CountedRepos)
            /\ IF InFeeds(r)
                 THEN {g \in Feeds : <<r, g>> \in handler.tried}
                         = {FeedOrder[i] : i \in 1..(handler.feed - 1)}
                 ELSE \A g \in Feeds : <<r, g>> \in handler.tried

\* the sync has answered 200 after the contributor stats of r1 failed: its
\* PRs and issues were stored all the same, r1 is committed and counted
C28_Witness ==
    /\ handler.pc = "done" /\ handler.response = "200"
    /\ handler.type = "repos"
    /\ <<"r1", "stats">> \in handler.tried \ handler.fed
    /\ {<<"r1", "prs">>, <<"r1", "issues">>} \subseteq handler.fed
    /\ "r1" \in committed
    /\ handler.count = Cardinality(AllRepos)
    /\ syncJob[handler.jobId].itemsProcessed = Cardinality(AllRepos)

(***************************************************************************)
(* The order of a sync                                                     *)
(***************************************************************************)
RECURSIVE Flatten(_)
Flatten(ss) == IF ss = <<>> THEN <<>> ELSE Head(ss) \o Flatten(Tail(ss))

\* the candidates band after band, each band in the order of its sample,
\* then the repositories language after language
SyncOrder(type) ==
    (IF shouldSyncUsers(type) THEN Flatten(BandCandidates) ELSE <<>>)
        \o (IF shouldSyncRepos(type) THEN Flatten(LanguageRepos) ELSE <<>>)

\* C29: within a sync the bands are gone through in declaration order and
\* the languages in the order of the tracked languages, one candidate and one
\* repository after the other in the order they were returned: what has been
\* processed so far is always a prefix of that order, so nothing of a later
\* band or language is processed before all of an earlier one.
C29_SequentialInOrder ==
    handler.route = "sync" =>
        \E k \in 0..Len(SyncOrder(handler.type)) :
            /\ handler.visited = {SyncOrder(handler.type)[i] : i \in 1..k}
            /\ handler.pc = "users_upsert" =>
                  k < Len(SyncOrder(handler.type))
                  /\ BandCandidates[handler.band][handler.cand]
                        = SyncOrder(handler.type)[k + 1]
            /\ handler.pc = "repos_upsert" =>
                  k < Len(SyncOrder(handler.type))
                  /\ LanguageRepos[handler.lang][handler.repo]
                        = SyncOrder(handler.type)[k + 1]

\* a sync of type all is about to upsert the repository of the second
\* language, with both bands and the first language behind it
C29_Witness ==
    /\ handler.route = "sync" /\ handler.type = "all"
    /\ handler.pc = "repos_upsert" /\ handler.lang = 2
    /\ handler.visited = AllCandidates \cup Range(LanguageRepos[1])

(***************************************************************************)
(* The size of a band's sample                                             *)
(***************************************************************************)
\* ids on the pages the search answered with
FetchedIds == Range(sampler.pages.desc) \cup Range(sampler.pages.asc)

NoDuplicates(list) ==
    \A i \in DOMAIN list, j \in DOMAIN list : list[i] = list[j] => i = j

\* C30: for every band and every per-band target the POST handler accepts,
\* the list sampleUsersFromBand returns has no duplicate ids, holds only
\* entries of the fetched pages, and has exactly min(target, number of
\* distinct fetched ids) entries.
C30_SampleSizeIsMinOfTargetAndIds ==
    \A r \in DOMAIN sampler.out :
        /\ NoDuplicates(sampler.out[r])
        /\ Range(sampler.out[r]) \subseteq FetchedIds
        /\ Len(sampler.out[r]) = Min(sampler.target, Cardinality(FetchedIds))

\* a run with a negative target has returned a list that is not empty
C30_Witness ==
    /\ sampler.target < 0
    /\ Len(sampler.out) >= 1
    /\ Len(sampler.out[1]) = Cardinality(FetchedIds) - 1
    /\ Len(sampler.out[1]) >= 2

(***************************************************************************)
(* The SampledRepo row across syncs                                        *)
(***************************************************************************)
Identity(r) ==
    <<r.id, r.githubId, r.fullName, r.owner, r.name, r.primaryLanguage, r.description>>

\* the step is a call of upsertRepo that resolved for a stored githubId
Resyncs ==
    /\ flow'.upserts = flow.upserts + 1
    /\ flow'.pc = "upserted"
    /\ rowOfGithubId(sampledRepo, flow'.repo.id) # {}

\* C31: an upsertRepo for a githubId that already has a row changes only
\* stars, forks, openIssues and lastSyncedAt of that row, to the values of
\* the payload and the time of the call; githubId, fullName, owner, name and
\* primaryLanguage of every row stay as they were created, the other rows
\* are untouched, and there is never a second row for a githubId.
C31_ResyncKeepsIdentity ==
    [][/\ \A r \in sampledRepo :
            \E q \in sampledRepo' :
               /\ Identity(q) = Identity(r)
               /\ q.githubId # flow'.repo.id => q = r
       /\ \A p \in sampledRepo', q \in sampledRepo' :
            p.githubId = q.githubId => p = q
       /\ Resyncs =>
            /\ Cardinality(sampledRepo') = Cardinality(sampledRepo)
            /\ \A q \in rowOfGithubId(sampledRepo', flow'.repo.id) :
                  /\ q.stars = flow'.repo.stargazers_count
                  /\ q.forks = flow'.repo.forks_count
                  /\ q.openIssues = flow'.repo.open_issues_count
                  /\ q.lastSyncedAt = flow'.upserts]_vars

\* a repository first sampled under one language was synced again from
\* another language's search after it was renamed: the row keeps its old
\* name and stratum and carries the new counters
C31_Witness ==
    /\ flow.pc = "upserted" /\ flow.existed
    /\ \E r \in sampledRepo :
          /\ r.githubId = flow.repo.id
          /\ r.fullName # flow.repo.full_name
          /\ r.primaryLanguage # flow.language
          /\ r.stars = flow.repo.stargazers_count
          /\ r.lastSyncedAt = flow.upserts
          /\ r.lastSyncedAt > 1

(***************************************************************************)
(* Accounts rejected on their profile                                      *)
(***************************************************************************)
\* C32: when getUser throws, or the profile's type is not User, or the login
\* ends with [bot], upsertUser returns false at once: no SampledUser row and
\* no daily row is created, changed or deleted, no contribution calendar is
\* requested and the processed counter stays.
C32_RejectedProfileTouchesNothing ==
    [][(/\ ob.pc = "getUser" /\ ob'.pc # "getUser"
        /\ \/ upstream[ob.user].type # "User"
           \/ endsWithBot(ob.user)
           \/ ob'.failures > ob.failures) =>
            /\ ob'.pc = "done" /\ ob'.outcome = "return" /\ ~ob'.result
            /\ sampledUser' = sampledUser
            /\ metrics' = metrics
            /\ ob'.attempted = {} /\ ob'.wrote = 0
            /\ processed' = processed]_vars

\* after alice was onboarded, an account of type User whose login ends with
\* [bot] was turned away with the store as alice's onboarding left it
C32_Witness ==
    /\ ob.pc = "done" /\ ob.outcome = "return" /\ ~ob.result
    /\ ob.user = "dependabot[bot]"
    /\ upstream[ob.user].type = "User"
    /\ ob.attempted = {} /\ ob.failures = 0
    /\ ~sampledUser[ob.user].present
    /\ sampledUser["alice"].present
    /\ metrics # {}

(***************************************************************************)
(* The day buckets across runs                                             *)
(***************************************************************************)
\* the days a list touches, and what the list says about a day
DaysOf(kind, list) ==
    {list[i].created_at[1] : i \in DOMAIN list}
      \cup {list[i].closed_at[1] : i \in {j \in DOMAIN list : list[j].closed_at # NoDate}}
      \cup (IF kind = "prs"
            THEN {list[i].merged_at[1] :
                     i \in {j \in DOMAIN list : list[j].merged_at # NoDate}}
            ELSE {})

OpenedOn(list, day) == {i \in DOMAIN list : list[i].created_at[1] = day}
ClosedOn(list, day) ==
    {i \in DOMAIN list : list[i].closed_at # NoDate /\ list[i].closed_at[1] = day}
MergedOn(list, day) ==
    {i \in DOMAIN list : list[i].merged_at # NoDate /\ list[i].merged_at[1] = day}

RECURSIVE SumHours(_, _, _)
SumHours(list, idx, field) ==
    IF idx = {} THEN 0
    ELSE LET i == CHOOSE x \in idx : TRUE
         IN hoursBetween(list[i].created_at, list[i][field])
              + SumHours(list, idx \ {i}, field)

\* avg is null for no latency, else the fraction total / count
IsAverage(avg, total, count) ==
    IF count = 0 THEN avg = NullAvg
    ELSE avg # NullAvg /\ avg[1] * count = total * avg[2]

OneRowPerDay(table) ==
    \A p \in table, q \in table :
        (p.date = q.date /\ p.repoId = q.repoId /\ p.language = q.language)
            => p = q

\* C33: a completed run of processRepoPRs or processRepoIssues leaves, for
\* every day its list touches, exactly one row of the repository and its
\* language holding the counts and the average latency of the list alone;
\* a run on the same list as the completed run before it leaves the table
\* exactly as that run left it.
C33_DayBucketsOverwritten ==
    /\ OneRowPerDay(prMetrics) /\ OneRowPerDay(issueMetrics)
    /\ flow.pc = "returned" =>
         /\ \A day \in DaysOf(flow.kind, flow.list) :
               \E r \in tableOf(flow.kind) :
                  /\ r.date = day
                  /\ IF flow.kind = "prs"
                     THEN /\ r.prsOpened = Cardinality(OpenedOn(flow.list, day))
                          /\ r.prsClosed = Cardinality(ClosedOn(flow.list, day))
                          /\ r.prsMerged = Cardinality(MergedOn(flow.list, day))
                          /\ IsAverage(r.avgTimeToMergeHrs,
                                SumHours(flow.list, MergedOn(flow.list, day), "merged_at"),
                                Cardinality(MergedOn(flow.list, day)))
                     ELSE /\ r.issuesOpened = Cardinality(OpenedOn(flow.list, day))
                          /\ r.issuesClosed = Cardinality(ClosedOn(flow.list, day))
                          /\ IsAverage(r.avgResolutionHrs,
                                SumHours(flow.list, ClosedOn(flow.list, day), "closed_at"),
                                Cardinality(ClosedOn(flow.list, day)))
         /\ (flow.prevKind = flow.kind /\ flow.prevList = flow.list) =>
               tableOf(flow.kind) = flow.before

\* processRepoPRs has run twice in a row on the two pull requests opened and
\* merged on day 1: the day's row counts them once, with the average of
\* their 6 and 3 hours
C33_Witness ==
    /\ flow.pc = "returned" /\ flow.kind = "prs"
    /\ flow.prevKind = "prs" /\ flow.prevList = flow.list
    /\ \E r \in prMetrics :
          /\ r.date = 1 /\ r.prsOpened = 2 /\ r.prsMerged = 2
          /\ r.avgTimeToMergeHrs = <<9, 2>>
    /\ Cardinality(prMetrics) = 1

(***************************************************************************)
(* The gate and the predicate                                              *)
(***************************************************************************)
\* C34: whenever waitIfNeeded(channel) would return without suspending (the
\* budget is above the buffer, or the delay it computes is 0),
\* canMakeRequest(channel) is true on the same budgets and clock.
C34_GateAgreesWithPredicate ==
    \A ch \in Channels :
        waitMs(limits, ch, now) = 0 => canMakeRequest(limits, ch, now)

\* a budget at or below its buffer whose reset lies a second or more back:
\* the gate lets the caller through and the predicate says yes
C34_Witness ==
    \E ch \in Channels :
        /\ limits[ch].remaining <= buffer(ch)
        /\ limits[ch].resetAt + 1000 <= now
        /\ waitMs(limits, ch, now) = 0
        /\ canMakeRequest(limits, ch, now)

(***************************************************************************)
(* The gate under several tasks                                            *)
(***************************************************************************)
\* C35: a task that was suspended inside waitIfNeeded(channel) while another
\* task's response ran updateFromHeaders on the same channel finds
\* canMakeRequest(channel) true at the moment its waitIfNeeded returns.
C35_GateSafeUnderInterleaving ==
    \A t \in TaskIds :
        (/\ tasks.of[t].pc = "request"
         /\ tasks.of[t].suspended
         /\ tasks.of[t].overtaken) => tasks.of[t].canAtReturn

\* a task has left the gate after its sleep, the other task's response
\* having meanwhile set the channel's budget below the buffer with a reset
\* that is still ahead
C35_Witness ==
    \E t \in TaskIds :
        /\ tasks.of[t].pc = "request"
        /\ tasks.of[t].suspended /\ tasks.of[t].overtaken
        /\ ~tasks.of[t].canAtReturn
        /\ limits[tasks.of[t].channel].remaining <= buffer(tasks.of[t].channel)
        /\ limits[tasks.of[t].channel].resetAt > now

(***************************************************************************)
(* The cache after a failed request                                        *)
(***************************************************************************)
\* the upstream request of the call failed for good
UpstreamFailed(c) == c.trace # <<>> /\ ~c.trace[Len(c.trace)].ok

\* C36: for every request function, a call whose upstream request failed
\* (not retryable, or retries exhausted) writes no cache entry for its key,
\* and a call answered from the cache never hands out what a failed request
\* left there.
C36_FailureNeverCached ==
    /\ (call.pc = "done" /\ UpstreamFailed(call)) => ~call.stored
    /\ (call.pc = "done" /\ call.fromCache /\ prev.op = call.op
           /\ prev.arg = call.arg /\ prev.fetches > 0) =>
          prev.outcome = "return" /\ prev.data \in Payloads

\* getRepoReadme has been answered from the cache with the null that the
\* call before it stored when its request failed
C36_Witness ==
    /\ call.pc = "done" /\ call.op = "getRepoReadme"
    /\ call.fromCache /\ call.fetches = 0
    /\ call.data = JNull
    /\ prev.op = call.op /\ prev.arg = call.arg
    /\ prev.fetches = 1 /\ prev.stored /\ prev.data = JNull

(***************************************************************************)
(* The stored total against the stored daily rows                          *)
(***************************************************************************)
RECURSIVE SumCounts(_)
SumCounts(rows) ==
    IF rows = {} THEN 0
    ELSE LET r == CHOOSE x \in rows : TRUE
         IN r.contributionCount + SumCounts(rows \ {r})

\* C37: whenever upsertUser returns true, the totalContributions written to
\* the user's row is the sum of contributionCount over the daily rows stored
\* for that user, a failed batch write of a post-baseline year included.
C37_TotalIsSumOfStoredRows ==
    (ob.pc = "done" /\ ob.outcome = "return" /\ ob.result) =>
        sampledUser[ob.user].totalContributions = SumCounts(RowsOfUser(ob.user))

\* accepted after the batch write of a post-baseline year was rejected: the
\* row's total counts days that no stored row holds
C37_Witness ==
    /\ ob.pc = "done" /\ ob.outcome = "return" /\ ob.result
    /\ ob.failures = 1 /\ ob.threw \subseteq {2022, 2023, 2024, 2025}
    /\ ob.last = NoRun
    /\ sampledUser[ob.user].totalContributions > SumCounts(RowsOfUser(ob.user))

(***************************************************************************)
(* itemsProcessed of a finished job                                        *)
(***************************************************************************)
\* the SyncJob row of the /api/sync invocation has been given its final status
JobEnded ==
    /\ handler.route = "sync" /\ handler.pc = "done" /\ handler.jobId # 0
    /\ syncJob[handler.jobId].status \in {"completed", "failed"}

\* C38: the itemsProcessed written to a SyncJob, completed or failed, is the
\* number of users the baseline gate accepted plus the number of
\* repositories upserted by that job up to the moment it ended.
C38_ItemsProcessedCountsJobWork ==
    JobEnded =>
        syncJob[handler.jobId].itemsProcessed = handler.processed + handler.count

\* the search of the second band failed after both users of the first were
\* accepted: the job is failed with itemsProcessed 0
C38_Witness ==
    /\ JobEnded /\ syncJob[handler.jobId].status = "failed"
    /\ handler.escaped = SearchFailed /\ handler.band = 2
    /\ handler.processed = 2 /\ {"u1", "u2"} \subseteq committed
    /\ syncJob[handler.jobId].itemsProcessed = 0

====
